---- MODULE Spec2Model ----
(***************************************************************************)
(* Model of the discarded-block reclassification and the fuzzy anchor      *)
(* locator of MineruCustom.                                                *)
(*                                                                         *)
(* JSON values are encoded as follows.  A JSON object (page record, block, *)
(* line, span) is a function from its keys to its values.  Every other     *)
(* value is a one-field record whose field name is its kind:               *)
(*   [list |-> s]  a list of objects      [nums |-> s]  a list of numbers  *)
(*   [null |-> TRUE]  None                [num |-> n]   a number           *)
(*   [bool |-> b]  a boolean                                               *)
(* The string-valued keys (type, content, text, caption, description) hold *)
(* plain strings.  Floating-point sizes are integers.                      *)
(***************************************************************************)
EXTENDS Integers, Sequences, FiniteSets, TLC

VARIABLES
    variant,                   \* which script runs the mover: "root", "pkg", "main"
    middle_data,               \* the top level of the parsed input document
    bottom_threshold_percent,  \* the threshold p entered by the user
    page_idx,                  \* number of pages of pdf_info consumed by the loop
    page_before,               \* the page record the last iteration received
    page_after,                \* the same page record after the iteration
    moved_blocks_count,        \* statistic kept by the script
    fixed_pages_count,         \* statistic kept by the script
    pc,                        \* "read", "loop", "returned", "written", "failed"
    fx_variant, fx_idx, fx_in, fx_out, fx_pc,      \* fix_incomplete_page_data
    cv_variant, cv_in, cv_out, cv_again, cv_pc,    \* convert_to_para_block_format
    official_md, target_text, loc_out, loc_pc,     \* find_insertion_point
    cp_md, cp_points, cp_sorted, cp_out, cp_pc,    \* build_final_text
    ex_spans, ex_out, ex_pc,                       \* extract_text_from_spans
    ff_text, ff_out, ff_pc,                        \* should_exclude_footnote
    or_mode,                   \* "page_md" (PageProcessor), "by_page", "keyword"
    pdf_info, or_md,           \* the page records and the document (official_md)
    page_info, page_contexts, footnotes, page_footnote_counts, stats,
    unmatched_pages, matched_points,
    page_insert_points, unmatched_insert_points, keyword_insert_points,
    all_insert_points,         \* the points handed to build_final_text
    inserted_text,             \* the document with the points inserted
    or_pc,                     \* the phase of process that comes next
    rs_md, rs_total_pages, rs_unmatched, rs_matched,   \* process_unmatched_pages
    rs_points, rs_matched_after, rs_pc,
    cf_page_info,              \* collect_footnotes: the page_info it works on
    cf_done,                   \* tasks whose worker has returned, in that order
    cf_yielded,                \* tasks whose result the loop has consumed, in that order
    cf_footnotes, cf_counts, cf_stats, cf_pc

vars == <<variant, middle_data, bottom_threshold_percent, page_idx, page_before, page_after,
          moved_blocks_count, fixed_pages_count, pc,
          fx_variant, fx_idx, fx_in, fx_out, fx_pc,
          cv_variant, cv_in, cv_out, cv_again, cv_pc,
          official_md, target_text, loc_out, loc_pc,
          cp_md, cp_points, cp_sorted, cp_out, cp_pc,
          ex_spans, ex_out, ex_pc, ff_text, ff_out, ff_pc,
          or_mode, pdf_info, or_md, page_info, page_contexts, footnotes,
          page_footnote_counts, stats, unmatched_pages, matched_points,
          page_insert_points, unmatched_insert_points, keyword_insert_points,
          all_insert_points, inserted_text, or_pc,
          rs_md, rs_total_pages, rs_unmatched, rs_matched, rs_points,
          rs_matched_after, rs_pc,
          cf_page_info, cf_done, cf_yielded, cf_footnotes, cf_counts, cf_stats, cf_pc>>

moverVars == <<variant, middle_data, bottom_threshold_percent, page_idx, page_before,
               page_after, moved_blocks_count, fixed_pages_count, pc>>
fixVars == <<fx_variant, fx_idx, fx_in, fx_out, fx_pc>>
convVars == <<cv_variant, cv_in, cv_out, cv_again, cv_pc>>
locVars == <<official_md, target_text, loc_out, loc_pc>>
compVars == <<cp_md, cp_points, cp_sorted, cp_out, cp_pc>>
extractVars == <<ex_spans, ex_out, ex_pc>>
filterVars == <<ff_text, ff_out, ff_pc>>
orchVars == <<or_mode, pdf_info, or_md, page_info, page_contexts, footnotes,
              page_footnote_counts, stats, unmatched_pages, matched_points,
              page_insert_points, unmatched_insert_points, keyword_insert_points,
              all_insert_points, inserted_text, or_pc>>
resolveVars == <<rs_md, rs_total_pages, rs_unmatched, rs_matched, rs_points,
                 rs_matched_after, rs_pc>>
collectVars == <<cf_page_info, cf_done, cf_yielded, cf_footnotes, cf_counts,
                 cf_stats, cf_pc>>
toolVars == <<compVars, extractVars, filterVars, orchVars, resolveVars, collectVars>>

(***************************************************************************)
(* Bounds of the model.                                                    *)
(***************************************************************************)
MaxPages == 2       \* pages of pdf_info one run consumes
MaxBlocks == 3      \* blocks in one page's discarded_blocks
MaxLines == 2       \* lines in one block given to the conversion
MaxHayPieces == 3   \* pieces concatenated into the haystack
MaxTargetPieces == 2 \* pieces concatenated into the target
MaxDocLen == 3      \* characters of the document given to build_final_text
MaxPoints == 3      \* insertion points given to build_final_text
MaxSpans == 3       \* spans given to extract_text_from_spans
MaxTextPieces == 4  \* pieces concatenated into a footnote text
MaxCollectPages == 2 \* pages of a document handed to collect_footnotes
MaxTotalPages == 4   \* pages of a document handed to process_unmatched_pages
MaxDocPages == 3    \* page records of a document given to the orchestrator

(***************************************************************************)
(* JSON values.                                                            *)
(***************************************************************************)
None == [null |-> TRUE]
EmptyDict == [k \in {} |-> TRUE]
Tags == {"list", "nums", "null", "num", "bool"}

IsDict(x) == DOMAIN x \cap Tags = {}
IsNone(x) == "null" \in DOMAIN x
IsList(x) == "list" \in DOMAIN x \/ "nums" \in DOMAIN x
Items(x) == IF "list" \in DOMAIN x THEN x.list ELSE x.nums
Put(d, k, v) == [x \in DOMAIN d \cup {k} |-> IF x = k THEN v ELSE d[x]]
Get(d, k) == IF k \in DOMAIN d THEN d[k] ELSE None

\* Python truth value of a JSON value
Truthy(x) ==
    IF IsDict(x) THEN DOMAIN x # {}
    ELSE IF IsList(x) THEN Items(x) # <<>>
    ELSE IF "num" \in DOMAIN x THEN x.num # 0
    ELSE IF "bool" \in DOMAIN x THEN x.bool
    ELSE FALSE

Range(s) == {s[i] : i \in 1..Len(s)}

RECURSIVE SeqsUpTo(_, _)
SeqsUpTo(S, n) ==
    IF n = 0 THEN {<<>>}
    ELSE LET shorter == SeqsUpTo(S, n - 1)
         IN  shorter \cup {Append(s, x) : s \in {t \in shorter : Len(t) = n - 1}, x \in S}

(***************************************************************************)
(* fix_incomplete_page_data                                                *)
(***************************************************************************)
required_fields ==
    <<"preproc_blocks", "layout_bboxes", "page_idx", "page_size", "_layout_tree",
      "images", "tables", "interline_equations", "discarded_blocks", "para_blocks">>

ListFields ==
    {"preproc_blocks", "layout_bboxes", "images", "tables",
     "interline_equations", "discarded_blocks", "para_blocks"}

DefaultSide == 1000      \* reprocess_discarded.py: width and height of a missing page_size
DefaultHeight == 1400    \* reprocess_discarded.py: height appended or set for an empty page_size
A4Width == 612           \* main.py
A4Height == 792          \* main.py

\* the value the loop over required_fields stores for a missing field
DefaultRoot(field, idx) ==
    IF field \in ListFields THEN [list |-> <<>>]
    ELSE IF field = "_layout_tree" THEN [list |-> <<>>]
    ELSE IF field = "page_idx" THEN [num |-> idx]
    ELSE [nums |-> <<DefaultSide, DefaultSide>>]

DefaultMain(field, idx) ==
    IF field \in ListFields THEN [list |-> <<>>]
    ELSE IF field = "page_idx" THEN [num |-> idx]
    ELSE IF field = "page_size" THEN [nums |-> <<A4Width, A4Height>>]
    ELSE EmptyDict

\* "ensure page_size has two elements": only lists of length 1 or 0 are touched
PageSizePatch(page, oneMore, whole) ==
    IF "page_size" \in DOMAIN page /\ IsList(page["page_size"])
    THEN LET ps == Items(page["page_size"])
         IN  IF Len(ps) = 1
             THEN [page |-> Put(page, "page_size", [nums |-> Append(ps, oneMore)]),
                   fixed |-> TRUE]
             ELSE IF Len(ps) = 0
             THEN [page |-> Put(page, "page_size", [nums |-> whole]), fixed |-> TRUE]
             ELSE [page |-> page, fixed |-> FALSE]
    ELSE [page |-> page, fixed |-> FALSE]

\* mutant: drop_reason is not added
DropFieldsNoReason(page) ==
    LET p1 == IF "need_drop" \in DOMAIN page THEN page
              ELSE Put(page, "need_drop", [bool |-> FALSE])
    IN  [page |-> p1, fixed |-> p1 # page]

DropFields(page) ==
    LET p1 == IF "need_drop" \in DOMAIN page THEN page
              ELSE Put(page, "need_drop", [bool |-> FALSE])
        p2 == IF "drop_reason" \in DOMAIN p1 THEN p1
              ELSE Put(p1, "drop_reason", [list |-> <<>>])
    IN  [page |-> p2, fixed |-> p2 # page]

FillMissing(page, idx, Default(_, _)) ==
    [k \in DOMAIN page \cup Range(required_fields) |->
        IF k \in DOMAIN page THEN page[k] ELSE Default(k, idx)]

\* reprocess_discarded.py and minerucustom/core/reprocess_discarded.py
FixRoot(page, idx) ==
    LET p1 == FillMissing(page, idx, DefaultRoot)
        r2 == PageSizePatch(p1, DefaultHeight, <<DefaultSide, DefaultHeight>>)
        r3 == DropFields(r2.page)
    IN  [page |-> r3.page, fixed |-> (p1 # page) \/ r2.fixed \/ r3.fixed]

\* main.py
FixMain(page, idx) ==
    LET p1 == FillMissing(page, idx, DefaultMain)
        r2 == PageSizePatch(p1, A4Height, <<A4Width, A4Height>>)
        r3 == DropFields(r2.page)
    IN  [page |-> r3.page, fixed |-> (p1 # page) \/ r2.fixed \/ r3.fixed]

fix_incomplete_page_data(v, page, idx) ==
    IF v = "main" THEN FixMain(page, idx) ELSE FixRoot(page, idx)

(***************************************************************************)
(* convert_to_para_block_format                                            *)
(***************************************************************************)
ValidSpanTypes == {"text", "inline_equation", "interline_equation", "image", "table"}
TextFields == <<"text", "content", "caption", "description">>
PlaceholderText == "(discarded)"   \* main.py line 260, the default text

NormSpan(span) ==
    IF "type" \notin DOMAIN span
    THEN IF "content" \in DOMAIN span
         THEN Put(span, "type", "text")
         ELSE Put(Put(span, "type", "text"), "content", "")
    ELSE IF span["type"] \notin ValidSpanTypes
    THEN Put(span, "type", "text")
    ELSE span

\* the loop over line['spans']: a span that is no object raises, and the spans
\* before it have already been rewritten in place
RECURSIVE NormSpansFrom(_, _)
NormSpansFrom(spans, i) ==
    IF i > Len(spans) THEN [spans |-> spans, ok |-> TRUE]
    ELSE IF ~IsDict(spans[i]) THEN [spans |-> spans, ok |-> FALSE]
    ELSE NormSpansFrom([spans EXCEPT ![i] = NormSpan(spans[i])], i + 1)

NormLine(line) ==
    IF ~IsDict(line) THEN [line |-> line, ok |-> FALSE]
    ELSE LET l1 == IF "spans" \notin DOMAIN line \/ ~IsList(line["spans"])
                   THEN Put(line, "spans", [list |-> <<>>])
                   ELSE line
             r == NormSpansFrom(Items(l1["spans"]), 1)
         IN  [line |-> Put(l1, "spans", [list |-> r.spans]), ok |-> r.ok]

\* the loop over converted_block['lines'], which are the lines of the argument
\* too (dict.copy is shallow)
RECURSIVE NormLinesFrom(_, _)
NormLinesFrom(lines, i) ==
    IF i > Len(lines) THEN [lines |-> lines, ok |-> TRUE]
    ELSE LET r == NormLine(lines[i])
             ls == [lines EXCEPT ![i] = r.line]
         IN  IF r.ok THEN NormLinesFrom(ls, i + 1) ELSE [lines |-> ls, ok |-> FALSE]

RECURSIVE FirstTextFrom(_, _)
FirstTextFrom(block, i) ==
    IF i > Len(TextFields) THEN ""
    ELSE IF TextFields[i] \in DOMAIN block /\ block[TextFields[i]] # ""
    THEN block[TextFields[i]]
    ELSE FirstTextFrom(block, i + 1)

FlatBlock(bbox, text_content) ==
    [type |-> "text", bbox |-> bbox,
     lines |-> [list |-> << [bbox |-> bbox,
                             spans |-> [list |-> << [bbox |-> bbox, type |-> "text",
                                                     content |-> text_content] >>]] >>]]

\* mutant: the type of a block that has lines is not forced to text
ConvertRootKeepType(block) ==
    IF "bbox" \notin DOMAIN block THEN [ret |-> None, arg |-> block]
    ELSE IF "lines" \in DOMAIN block
    THEN IF ~IsList(block["lines"])
         THEN [ret |-> None, arg |-> block]
         ELSE LET r == NormLinesFrom(Items(block["lines"]), 1)
                  after == Put(block, "lines", [list |-> r.lines])
              IN  [ret |-> IF r.ok THEN after ELSE None, arg |-> after]
    ELSE [ret |-> FlatBlock(block["bbox"], FirstTextFrom(block, 1)), arg |-> block]

\* reprocess_discarded.py and minerucustom/core/reprocess_discarded.py.
\* ret is the returned value (None or a block), arg the argument after the call.
ConvertRoot(block) ==
    IF "bbox" \notin DOMAIN block THEN [ret |-> None, arg |-> block]
    ELSE IF "lines" \in DOMAIN block
    THEN IF ~IsList(block["lines"])
         THEN [ret |-> None, arg |-> block]       \* iterating None raises
         ELSE LET r == NormLinesFrom(Items(block["lines"]), 1)
                  after == Put(block, "lines", [list |-> r.lines])
              IN  [ret |-> IF r.ok THEN Put(after, "type", "text") ELSE None,
                   arg |-> after]
    ELSE [ret |-> FlatBlock(block["bbox"], FirstTextFrom(block, 1)), arg |-> block]

\* main.py: the contents of the spans, joined with blanks
RECURSIVE SpanContents(_, _)
SpanContents(spans, i) ==
    IF i > Len(spans) THEN [contents |-> <<>>, ok |-> TRUE]
    ELSE IF ~IsDict(spans[i]) THEN [contents |-> <<>>, ok |-> FALSE]
    ELSE LET rest == SpanContents(spans, i + 1)
         IN  [contents |-> (IF "content" \in DOMAIN spans[i]
                            THEN <<spans[i]["content"]>> ELSE <<>>) \o rest.contents,
              ok |-> rest.ok]

RECURSIVE LineContents(_, _)
LineContents(lines, i) ==
    IF i > Len(lines) THEN [contents |-> <<>>, ok |-> TRUE]
    ELSE IF ~IsDict(lines[i]) THEN [contents |-> <<>>, ok |-> FALSE]
    ELSE LET here == IF "spans" \in DOMAIN lines[i] /\ IsList(lines[i]["spans"])
                     THEN SpanContents(Items(lines[i]["spans"]), 1)
                     ELSE [contents |-> <<>>, ok |-> TRUE]
             rest == LineContents(lines, i + 1)
         IN  [contents |-> here.contents \o rest.contents, ok |-> here.ok /\ rest.ok]

RECURSIVE JoinBlank(_)
JoinBlank(ss) ==
    IF ss = <<>> THEN ""
    ELSE IF Len(ss) = 1 THEN ss[1]
    ELSE ss[1] \o " " \o JoinBlank(Tail(ss))

ConvertMain(block) ==
    IF "bbox" \notin DOMAIN block THEN [ret |-> None, arg |-> block]
    ELSE LET t1 == FirstTextFrom(block, 1)
             fromLines == t1 = "" /\ "lines" \in DOMAIN block /\ IsList(block["lines"])
             r == IF fromLines THEN LineContents(Items(block["lines"]), 1)
                  ELSE [contents |-> <<>>, ok |-> TRUE]
             t2 == IF r.contents # <<>> THEN JoinBlank(r.contents) ELSE t1
             t3 == IF t2 = "" THEN PlaceholderText ELSE t2
         IN  [ret |-> IF r.ok THEN FlatBlock(block["bbox"], t3) ELSE None,
              arg |-> block]

convert_to_para_block_format(v, block) ==
    IF v = "main" THEN ConvertMain(block) ELSE ConvertRoot(block)

(***************************************************************************)
(* The Classifier/Mover: one iteration of the loop over pdf_info           *)
(***************************************************************************)
\* mutant: a strict comparison with the threshold
AtOrBelowThresholdStrict(y0, page_height, p) == y0 * 100 > page_height * (100 - p)

\* bbox[1] >= page_height * (1 - p / 100), in exact arithmetic
AtOrBelowThreshold(y0, page_height, p) == y0 * 100 >= page_height * (100 - p)

Skip(page, fixed) == [page |-> page, moved |-> 0, fixed |-> fixed, raised |-> FALSE]
Raise(page, fixed) == [page |-> page, moved |-> 0, fixed |-> fixed, raised |-> TRUE]

\* reprocess_discarded.py: bbox and len(bbox) >= 4 and bbox[1] >= y_threshold
BottomTestRoot(block, page_height, p) ==
    LET bbox == Get(block, "bbox")
    IN  /\ Truthy(bbox)
        /\ Len(Items(bbox)) >= 4
        /\ AtOrBelowThreshold(Items(bbox)[2], page_height, p)

\* mutant: a block whose conversion fails is not kept
RECURSIVE ClassifyRootLossy(_, _, _, _)
ClassifyRootLossy(blocks, i, page_height, p) ==
    IF i > Len(blocks) THEN [to_move |-> <<>>, remaining |-> <<>>]
    ELSE LET rest == ClassifyRootLossy(blocks, i + 1, page_height, p)
             c == ConvertRoot(blocks[i])
         IN  IF BottomTestRoot(blocks[i], page_height, p)
             THEN IF ~IsNone(c.ret)
                  THEN [to_move |-> <<c.ret>> \o rest.to_move, remaining |-> rest.remaining]
                  ELSE rest
             ELSE [to_move |-> rest.to_move, remaining |-> <<blocks[i]>> \o rest.remaining]

\* mutant: the moved blocks are collected in reverse order
RECURSIVE ClassifyRootReversed(_, _, _, _)
ClassifyRootReversed(blocks, i, page_height, p) ==
    IF i > Len(blocks) THEN [to_move |-> <<>>, remaining |-> <<>>]
    ELSE LET rest == ClassifyRootReversed(blocks, i + 1, page_height, p)
             c == ConvertRoot(blocks[i])
         IN  IF BottomTestRoot(blocks[i], page_height, p)
             THEN IF ~IsNone(c.ret)
                  THEN [to_move |-> rest.to_move \o <<c.ret>>, remaining |-> rest.remaining]
                  ELSE [to_move |-> rest.to_move, remaining |-> <<c.arg>> \o rest.remaining]
             ELSE [to_move |-> rest.to_move, remaining |-> <<blocks[i]>> \o rest.remaining]

\* the loop over discarded_blocks that fills blocks_to_move and remaining_discarded
RECURSIVE ClassifyRoot(_, _, _, _)
ClassifyRoot(blocks, i, page_height, p) ==
    IF i > Len(blocks) THEN [to_move |-> <<>>, remaining |-> <<>>]
    ELSE LET rest == ClassifyRoot(blocks, i + 1, page_height, p)
             c == ConvertRoot(blocks[i])
         IN  IF BottomTestRoot(blocks[i], page_height, p)
             THEN IF ~IsNone(c.ret)
                  THEN [to_move |-> <<c.ret>> \o rest.to_move, remaining |-> rest.remaining]
                  ELSE [to_move |-> rest.to_move, remaining |-> <<c.arg>> \o rest.remaining]
             ELSE [to_move |-> rest.to_move, remaining |-> <<blocks[i]>> \o rest.remaining]

\* the body of the loop of reprocess_middle_interactive
MoverRoot(page_data, idx, p) ==
    IF ~Truthy(page_data) THEN Skip(page_data, 0)
    ELSE LET f == FixRoot(page_data, idx)
             nfix == IF f.fixed THEN 1 ELSE 0
             page_size == Get(f.page, "page_size")
             discarded_blocks == Get(f.page, "discarded_blocks")
             p1 == IF IsList(Get(f.page, "para_blocks")) THEN f.page
                   ELSE Put(f.page, "para_blocks", [list |-> <<>>])
         IN  IF ~Truthy(page_size) THEN Skip(f.page, nfix)
             ELSE IF ~IsList(page_size) THEN Raise(f.page, nfix)   \* len() of a number
             ELSE IF Len(Items(page_size)) < 2 THEN Skip(f.page, nfix)
             ELSE IF ~IsList(discarded_blocks) THEN Skip(f.page, nfix)
             ELSE LET c == ClassifyRoot(Items(discarded_blocks), 1, Items(page_size)[2], p)
                      p2 == Put(p1, "para_blocks",
                                [list |-> Items(p1["para_blocks"]) \o c.to_move])
                  IN  [page |-> Put(p2, "discarded_blocks", [list |-> c.remaining]),
                       moved |-> Len(c.to_move), fixed |-> nfix, raised |-> FALSE]

\* list.remove: drops the first element equal to x
RECURSIVE RemoveFirst(_, _)
RemoveFirst(s, x) ==
    IF s = <<>> THEN <<>>
    ELSE IF Head(s) = x THEN Tail(s)
    ELSE <<Head(s)>> \o RemoveFirst(Tail(s), x)

RECURSIVE RemoveAll(_, _)
RemoveAll(s, xs) ==
    IF xs = <<>> THEN s ELSE RemoveAll(RemoveFirst(s, Head(xs)), Tail(xs))

\* main.py: the loop over page_data['discarded_blocks']
RECURSIVE ClassifyMain(_, _, _, _)
ClassifyMain(blocks, i, page_height, p) ==
    IF i > Len(blocks) THEN [to_move |-> <<>>, appended |-> <<>>, raised |-> FALSE]
    ELSE IF "bbox" \in DOMAIN blocks[i] /\ ~IsList(blocks[i]["bbox"])
    THEN [to_move |-> <<>>, appended |-> <<>>, raised |-> TRUE]     \* len(None)
    ELSE LET rest == ClassifyMain(blocks, i + 1, page_height, p)
             c == ConvertMain(blocks[i])
         IN  IF /\ "bbox" \in DOMAIN blocks[i]
                /\ Len(Items(blocks[i]["bbox"])) = 4
                /\ AtOrBelowThreshold(Items(blocks[i]["bbox"])[2], page_height, p)
                /\ ~IsNone(c.ret)
             THEN [to_move |-> <<blocks[i]>> \o rest.to_move,
                   appended |-> <<c.ret>> \o rest.appended, raised |-> rest.raised]
             ELSE rest

\* the body of the loop of process_middle_json
MoverMain(page_data, idx, p) ==
    IF ~IsDict(page_data) THEN Raise(page_data, 0)     \* 'field' in None
    ELSE LET f == FixMain(page_data, idx)
             nfix == IF f.fixed THEN 1 ELSE 0
             page_size == f.page["page_size"]
             discarded_blocks == f.page["discarded_blocks"]
             para_blocks == f.page["para_blocks"]
         IN  IF ~(IsList(discarded_blocks) /\ IsList(para_blocks) /\ Truthy(page_size))
             THEN Skip(f.page, nfix)
             ELSE IF ~IsList(page_size) THEN Raise(f.page, nfix)   \* number[1]
             ELSE LET c == ClassifyMain(Items(discarded_blocks), 1, Items(page_size)[2], p)
                      p2 == Put(f.page, "para_blocks",
                                [list |-> Items(para_blocks) \o c.appended])
                  IN  IF c.raised THEN Raise(f.page, nfix)
                      ELSE [page |-> Put(p2, "discarded_blocks",
                                         [list |-> RemoveAll(Items(discarded_blocks), c.to_move)]),
                            moved |-> Len(c.to_move), fixed |-> nfix, raised |-> FALSE]

(***************************************************************************)
(* Inputs of the mover                                                     *)
(***************************************************************************)
BBox(y0) == [nums |-> <<10, y0, 50, y0 + 5>>]
UntypedSpan == [content |-> "n"]
TextSpan(y0) == [type |-> "text", content |-> "a", bbox |-> BBox(y0)]
EquationSpan(y0) == [type |-> "inline_equation", content |-> "x", bbox |-> BBox(y0)]

BlockSamples ==
    { [bbox |-> BBox(10), text |-> "top"],
      [bbox |-> BBox(80), type |-> "discarded", content |-> "foot"],
      [bbox |-> BBox(90), type |-> "discarded",
       lines |-> [list |-> << [bbox |-> BBox(91), spans |-> [list |-> <<UntypedSpan>>]] >>]],
      [bbox |-> BBox(95),
       lines |-> [list |-> << [spans |-> [list |-> <<UntypedSpan>>]], None >>]],
      [text |-> "nobox"],
      [bbox |-> [nums |-> <<10, 85, 50, 90, 1>>], text |-> "five"],
      [bbox |-> [nums |-> <<10, 85, 50>>], text |-> "three"],
      [bbox |-> None, text |-> "nullbox"] }

ParaSample == FlatBlock(BBox(20), "body")

CompletePage(page_size, para_blocks, discarded_blocks) ==
    [preproc_blocks |-> [list |-> <<>>], layout_bboxes |-> [list |-> <<>>],
     page_idx |-> [num |-> 0], page_size |-> page_size, _layout_tree |-> [list |-> <<>>],
     images |-> [list |-> <<>>], tables |-> [list |-> <<>>],
     interline_equations |-> [list |-> <<>>], discarded_blocks |-> discarded_blocks,
     para_blocks |-> para_blocks, need_drop |-> [bool |-> FALSE],
     drop_reason |-> [list |-> <<>>]]

DiscardedLists == {[list |-> s] : s \in SeqsUpTo(BlockSamples, MaxBlocks)}
FewDiscarded ==
    { [list |-> << [bbox |-> BBox(90), text |-> "foot"] >>], None }

MoverPages ==
    {CompletePage([nums |-> <<60, 100>>], para, d) :
        para \in {[list |-> <<>>], [list |-> <<ParaSample>>]}, d \in DiscardedLists}
    \cup {CompletePage(ps, [list |-> <<>>], d) :
        ps \in {None, [nums |-> <<60>>], [num |-> 612]}, d \in FewDiscarded}
    \cup {CompletePage([nums |-> <<60, 100>>], None, d) : d \in FewDiscarded}
    \cup {[discarded_blocks |-> d] : d \in FewDiscarded}
    \cup {None, EmptyDict}

\* the pages after the first one of a document range over a smaller set
LaterPages ==
    {CompletePage(ps, [list |-> <<ParaSample>>], d) :
        ps \in {[nums |-> <<60, 100>>], [num |-> 612]}, d \in FewDiscarded}
    \cup {[discarded_blocks |-> d] : d \in FewDiscarded}
    \cup {None}

PagesAt(idx) == IF idx = 0 THEN MoverPages ELSE LaterPages

Thresholds == {20, 100}

(***************************************************************************)
(* The mover as a state machine                                            *)
(***************************************************************************)
IdleMover ==
    /\ variant = "none" /\ middle_data = None
    /\ bottom_threshold_percent = 0 /\ page_idx = 0
    /\ page_before = None /\ page_after = None
    /\ moved_blocks_count = 0 /\ fixed_pages_count = 0 /\ pc = "idle"
IdleFix == fx_variant = "none" /\ fx_idx = 0 /\ fx_in = None /\ fx_out = None /\ fx_pc = "idle"
IdleConv ==
    cv_variant = "none" /\ cv_in = None /\ cv_out = None /\ cv_again = None /\ cv_pc = "idle"
IdleLoc == official_md = <<>> /\ target_text = <<>> /\ loc_out = 0 /\ loc_pc = "idle"
IdleComp ==
    cp_md = <<>> /\ cp_points = <<>> /\ cp_sorted = <<>> /\ cp_out = <<>> /\ cp_pc = "idle"
IdleExtract == ex_spans = <<>> /\ ex_out = <<>> /\ ex_pc = "idle"
IdleFilter == ff_text = <<>> /\ ff_out = FALSE /\ ff_pc = "idle"
IdleOrch ==
    /\ or_mode = "none" /\ pdf_info = <<>> /\ or_md = <<>>
    /\ page_info = <<>> /\ page_contexts = EmptyDict
    /\ footnotes = <<>> /\ page_footnote_counts = EmptyDict /\ stats = EmptyDict
    /\ unmatched_pages = {} /\ matched_points = EmptyDict
    /\ page_insert_points = <<>> /\ unmatched_insert_points = <<>>
    /\ keyword_insert_points = <<>> /\ all_insert_points = <<>>
    /\ inserted_text = <<>> /\ or_pc = "idle"
IdleResolve ==
    /\ rs_md = <<>> /\ rs_total_pages = 0 /\ rs_unmatched = {}
    /\ rs_matched = EmptyDict /\ rs_points = <<>> /\ rs_matched_after = EmptyDict
    /\ rs_pc = "idle"
IdleCollect ==
    /\ cf_page_info = <<>> /\ cf_done = <<>> /\ cf_yielded = <<>>
    /\ cf_footnotes = <<>> /\ cf_counts = EmptyDict /\ cf_stats = EmptyDict
    /\ cf_pc = "idle"
IdleTools ==
    IdleComp /\ IdleExtract /\ IdleFilter /\ IdleOrch /\ IdleResolve /\ IdleCollect

\* The top level of the document json.load returned.  A pdf_info that is a
\* list is written [list |-> <<>>] here: its pages are the page records the
\* iterations of the loop receive (PagesAt).
MiddleDocs ==
    { [pdf_info |-> [list |-> <<>>]],
      EmptyDict,
      [k \in {"_parse_type"} |-> [list |-> <<>>]],
      [pdf_info |-> None],
      [pdf_info |-> EmptyDict],
      [pdf_info |-> [num |-> 3]] }

\* the check the three scripts make before the loop: the key is there and its
\* value is a list
PdfInfoKeyOnly(data) == "pdf_info" \in DOMAIN data
PdfInfoOk(data) ==
    /\ "pdf_info" \in DOMAIN data
    /\ IsList(data["pdf_info"])

Init ==
    /\ variant \in {"root", "pkg", "main"}
    /\ middle_data \in MiddleDocs
    /\ bottom_threshold_percent \in Thresholds
    /\ page_idx = 0
    /\ page_before = None /\ page_after = None
    /\ moved_blocks_count = 0 /\ fixed_pages_count = 0
    /\ pc = "read"
    /\ IdleFix /\ IdleConv /\ IdleLoc /\ IdleTools

Iterate(r, page_data, countsMoves) ==
    /\ page_before' = page_data
    /\ page_after' = r.page
    /\ page_idx' = page_idx + 1
    /\ fixed_pages_count' = fixed_pages_count + r.fixed
    /\ moved_blocks_count' = IF countsMoves THEN moved_blocks_count + r.moved
                             ELSE moved_blocks_count
    /\ pc' = IF r.raised THEN "failed" ELSE "loop"
    /\ UNCHANGED <<variant, middle_data, bottom_threshold_percent>>

\* the document is read and checked: without a list under pdf_info the script
\* prints the error and returns
CheckPdfInfo ==
    /\ pc = "read"
    /\ pc' = IF PdfInfoOk(middle_data) THEN "loop" ELSE "returned"
    /\ UNCHANGED <<variant, middle_data, bottom_threshold_percent, page_idx,
                   page_before, page_after, moved_blocks_count, fixed_pages_count,
                   fixVars, convVars, locVars, toolVars>>

\* src/reprocess_discarded.py: moved_blocks_count is printed but never incremented
ProcessPageRoot ==
    /\ pc = "loop" /\ variant = "root" /\ page_idx < MaxPages
    /\ \E page_data \in PagesAt(page_idx) :
          Iterate(MoverRoot(page_data, page_idx, bottom_threshold_percent), page_data, FALSE)
    /\ UNCHANGED <<fixVars, convVars, locVars, toolVars>>

\* src/minerucustom/core/reprocess_discarded.py
ProcessPagePkg ==
    /\ pc = "loop" /\ variant = "pkg" /\ page_idx < MaxPages
    /\ \E page_data \in PagesAt(page_idx) :
          Iterate(MoverRoot(page_data, page_idx, bottom_threshold_percent), page_data, TRUE)
    /\ UNCHANGED <<fixVars, convVars, locVars, toolVars>>

\* src/main.py process_middle_json
ProcessPageMain ==
    /\ pc = "loop" /\ variant = "main" /\ page_idx < MaxPages
    /\ \E page_data \in PagesAt(page_idx) :
          Iterate(MoverMain(page_data, page_idx, bottom_threshold_percent), page_data, TRUE)
    /\ UNCHANGED <<fixVars, convVars, locVars, toolVars>>

\* the loop is over: the modified document is written
WriteOutput ==
    /\ pc = "loop"
    /\ pc' = "written"
    /\ UNCHANGED <<variant, middle_data, bottom_threshold_percent, page_idx,
                   page_before, page_after, moved_blocks_count, fixed_pages_count,
                   fixVars, convVars, locVars, toolVars>>

Next ==
    CheckPdfInfo \/ ProcessPageRoot \/ ProcessPagePkg \/ ProcessPageMain \/ WriteOutput

Spec == Init /\ [][Next]_vars

(***************************************************************************)
(* Properties of the Classifier/Mover                                      *)
(***************************************************************************)
ListOf(page, key) ==
    IF IsDict(page) /\ key \in DOMAIN page /\ IsList(page[key])
    THEN Items(page[key]) ELSE <<>>
HoldsNonList(page, key) == key \in DOMAIN page /\ ~IsList(page[key])

DiscBefore == ListOf(page_before, "discarded_blocks")
DiscAfter == ListOf(page_after, "discarded_blocks")
ParaBefore == ListOf(page_before, "para_blocks")
ParaAfter == ListOf(page_after, "para_blocks")
Appended == SubSeq(ParaAfter, Len(ParaBefore) + 1, Len(ParaAfter))
PageHeight == Items(page_after["page_size"])[2]

\* an iteration has ended normally on a page record with a list of discarded
\* blocks and a page_size of at least two entries
IterationDone ==
    /\ page_idx > 0 /\ pc # "failed"
    /\ IsDict(page_before) /\ IsDict(page_after)
    /\ "discarded_blocks" \in DOMAIN page_before /\ IsList(page_before["discarded_blocks"])
    /\ "page_size" \in DOMAIN page_after /\ IsList(page_after["page_size"])
    /\ Len(Items(page_after["page_size"])) >= 2

\* the page is one the loop does not skip
NotSkipped ==
    /\ IterationDone
    /\ variant = "main" => ~HoldsNonList(page_before, "para_blocks")

ValidBBox4(b) == "bbox" \in DOMAIN b /\ IsList(b["bbox"]) /\ Len(Items(b["bbox"])) = 4
HasY0(b) == "bbox" \in DOMAIN b /\ IsList(b["bbox"]) /\ Len(Items(b["bbox"])) >= 2
InBottomRegion(b) ==
    Items(b["bbox"])[2] * 100 >= PageHeight * (100 - bottom_threshold_percent)
Converted(b) == convert_to_para_block_format(variant, b)

\* C1 as claimed: on every page, every discarded block with a valid 4-entry bbox
\* and bbox[1] >= page_size[1] * (1 - p/100) is afterwards in para_blocks in
\* converted form and not in discarded_blocks, and every block with bbox[1] below
\* the threshold is still in discarded_blocks unchanged.
C1_AsClaimed ==
    IterationDone =>
        \A i \in 1..Len(DiscBefore) :
            LET b == DiscBefore[i]
            IN  /\ (ValidBBox4(b) /\ InBottomRegion(b)) =>
                      /\ Converted(b).ret \in Range(ParaAfter)
                      /\ b \notin Range(DiscAfter)
                /\ (HasY0(b) /\ ~InBottomRegion(b)) => b \in Range(DiscAfter)

\* C1 amended: on every page the loop does not skip, every discarded block with a
\* valid 4-entry bbox, bbox[1] >= page_size[1] * (1 - p/100) and a successful
\* conversion is afterwards in para_blocks in converted form and not in
\* discarded_blocks; a block whose conversion returns None stays in
\* discarded_blocks; every block with bbox[1] below the threshold is still in
\* discarded_blocks unchanged.
C1_BottomBlocksMoved ==
    NotSkipped =>
        \A i \in 1..Len(DiscBefore) :
            LET b == DiscBefore[i]
            IN  /\ (ValidBBox4(b) /\ InBottomRegion(b) /\ ~IsNone(Converted(b).ret)) =>
                      /\ Converted(b).ret \in Range(Appended)
                      /\ b \notin Range(DiscAfter)
                /\ (ValidBBox4(b) /\ InBottomRegion(b) /\ IsNone(Converted(b).ret)) =>
                      Converted(b).arg \in Range(DiscAfter)
                /\ (HasY0(b) /\ ~InBottomRegion(b)) => b \in Range(DiscAfter)

\* a page on which a block at the threshold was moved, one above it stayed and
\* one whose conversion failed stayed
C1_Witness ==
    /\ NotSkipped
    /\ \E i \in 1..Len(DiscBefore) :
          /\ ValidBBox4(DiscBefore[i])
          /\ Items(DiscBefore[i]["bbox"])[2] * 100
                = PageHeight * (100 - bottom_threshold_percent)
          /\ Converted(DiscBefore[i]).ret \in Range(Appended)
    /\ \E i \in 1..Len(DiscBefore) :
          /\ HasY0(DiscBefore[i]) /\ ~InBottomRegion(DiscBefore[i])
          /\ DiscBefore[i] \in Range(DiscAfter)
    /\ \E i \in 1..Len(DiscBefore) :
          /\ ValidBBox4(DiscBefore[i]) /\ InBottomRegion(DiscBefore[i])
          /\ IsNone(Converted(DiscBefore[i]).ret)

\* C2: no block is lost: after a page is processed every block that was in
\* discarded_blocks is still there or is represented by its converted block among
\* the blocks appended to para_blocks, len(para_blocks) + len(discarded_blocks) is
\* unchanged, and the blocks that were in para_blocks are still there.
C2_NoBlockLost ==
    (IterationDone /\ ~HoldsNonList(page_before, "para_blocks")) =>
        /\ Len(ParaAfter) + Len(DiscAfter) = Len(ParaBefore) + Len(DiscBefore)
        /\ SubSeq(ParaAfter, 1, Len(ParaBefore)) = ParaBefore
        /\ \A i \in 1..Len(DiscBefore) :
              LET b == DiscBefore[i]
              IN  \/ b \in Range(DiscAfter)
                  \/ Converted(b).arg \in Range(DiscAfter)
                  \/ /\ ~IsNone(Converted(b).ret)
                     /\ Converted(b).ret \in Range(Appended)

\* a page with a block already in para_blocks, on which one block was moved, one
\* stayed and one failed to convert
C2_Witness ==
    /\ IterationDone /\ ~HoldsNonList(page_before, "para_blocks")
    /\ Len(ParaBefore) = 1 /\ Len(Appended) = 1 /\ Len(DiscAfter) = 2
    /\ \E i \in 1..Len(DiscBefore) :
          /\ ValidBBox4(DiscBefore[i]) /\ InBottomRegion(DiscBefore[i])
          /\ IsNone(Converted(DiscBefore[i]).ret)

RECURSIVE StayedInOrder(_, _)
StayedInOrder(after, before) ==
    IF after = <<>> THEN TRUE
    ELSE IF before = <<>> THEN FALSE
    ELSE IF Head(after) = Head(before) \/ Head(after) = Converted(Head(before)).arg
    THEN StayedInOrder(Tail(after), Tail(before))
    ELSE StayedInOrder(after, Tail(before))

RECURSIVE MovedInOrder(_, _)
MovedInOrder(moved, before) ==
    IF moved = <<>> THEN TRUE
    ELSE IF before = <<>> THEN FALSE
    ELSE IF Head(moved) = Converted(Head(before)).ret
    THEN MovedInOrder(Tail(moved), Tail(before))
    ELSE MovedInOrder(moved, Tail(before))

\* C3: order is preserved: the moved blocks come after all the blocks para_blocks
\* held, in the relative order they had in discarded_blocks, and the blocks that
\* stay in discarded_blocks keep their relative order.
C3_OrderPreserved ==
    (IterationDone /\ ~HoldsNonList(page_before, "para_blocks")) =>
        /\ SubSeq(ParaAfter, 1, Len(ParaBefore)) = ParaBefore
        /\ MovedInOrder(Appended, DiscBefore)
        /\ StayedInOrder(DiscAfter, DiscBefore)

\* two different blocks were moved behind an existing paragraph block, or two
\* different blocks stayed
C3_Witness ==
    /\ IterationDone /\ Len(ParaBefore) = 1
    /\ \/ Len(Appended) = 2 /\ Appended[1] # Appended[2] /\ Len(DiscAfter) = 1
       \/ Len(DiscAfter) = 2 /\ DiscAfter[1] # DiscAfter[2] /\ Len(Appended) = 1

\* the parsed document lacks the key pdf_info or holds something else than a
\* list under it
MalformedTop ==
    \/ "pdf_info" \notin DOMAIN middle_data
    \/ \A tag \in {"list", "nums"} : tag \notin DOMAIN middle_data["pdf_info"]

\* C17: malformed input aborts before any write: when the parsed document lacks
\* pdf_info or its value is not a list, the script never enters the loop,
\* touches no page and no statistic, and never writes the output file.
C17_AbortsBeforeWrite ==
    (variant # "none" /\ MalformedTop) =>
        /\ pc \in {"read", "returned"}
        /\ page_idx = 0 /\ page_after = None
        /\ moved_blocks_count = 0 /\ fixed_pages_count = 0

\* the script has returned on a document whose pdf_info is not a list
C17_Witness ==
    /\ pc = "returned" /\ variant = "root"
    /\ "pdf_info" \in DOMAIN middle_data /\ middle_data["pdf_info"] = EmptyDict

\* a page record without page_size, or with a page_size, para_blocks or
\* discarded_blocks that is not a list
MalformedPage(page) ==
    /\ IsDict(page)
    /\ \/ "page_size" \notin DOMAIN page
       \/ HoldsNonList(page, "page_size")
       \/ HoldsNonList(page, "para_blocks")
       \/ HoldsNonList(page, "discarded_blocks")

\* C18 as stated: a malformed page record is never a document-wide failure:
\* the iteration that receives it ends normally and the loop goes on.
C18_AsClaimed ==
    (page_idx > 0 /\ MalformedPage(page_before)) => pc # "failed"

\* C19 as stated: a discarded block whose bbox is missing, empty or does not
\* have exactly 4 entries is never moved: it is still in discarded_blocks,
\* unchanged, after the page is processed.
C19_AsClaimed ==
    IterationDone =>
        \A i \in 1..Len(DiscBefore) :
            ~ValidBBox4(DiscBefore[i]) => DiscBefore[i] \in Range(DiscAfter)

\* C20 as stated: a block of the bottom region for which
\* convert_to_para_block_format returns None is still in discarded_blocks
\* after the page is processed, with exactly the content it had before.
C20_AsClaimed ==
    IterationDone =>
        \A i \in 1..Len(DiscBefore) :
            LET b == DiscBefore[i]
            IN  (ValidBBox4(b) /\ InBottomRegion(b) /\ IsNone(Converted(b).ret)) =>
                    b \in Range(DiscAfter)

\* C29 as stated: the moved-blocks statistic of reprocess_middle_interactive
\* is the number of discarded blocks moved to para_blocks, here when the loop
\* has processed its first page.
C29_AsClaimed ==
    (variant \in {"root", "pkg"} /\ page_idx = 1 /\ IterationDone) =>
        moved_blocks_count = Len(Appended)


(***************************************************************************)
(* fix_incomplete_page_data as a state machine                             *)
(***************************************************************************)
AllRequired == Range(required_fields) \cup {"need_drop", "drop_reason"}
OpaqueFields == {"preproc_blocks", "layout_bboxes", "tables", "interline_equations"}
OpaquePresent == {OpaqueFields, {}, OpaqueFields \ {"preproc_blocks"}}

PageSizeKinds ==
    { [nums |-> <<60, 100>>], [nums |-> <<>>], [nums |-> <<60>>], [nums |-> <<60, 100, 7>>],
      [nums |-> <<0, 0>>], [nums |-> <<-5>>], None, [num |-> 612] }

\* a page record with the fields of `present`; `wrong` names a list field that
\* holds null instead of a list
FixPage(present, page_size, wrong) ==
    [k \in present |->
        IF k = "page_size" THEN page_size
        ELSE IF k = wrong THEN None
        ELSE IF k = "page_idx" THEN [num |-> 7]
        ELSE IF k = "need_drop" THEN [bool |-> FALSE]
        ELSE [list |-> <<>>]]

FixPages ==
    {FixPage(some \cup opaque, ps, wrong) :
        some \in SUBSET (AllRequired \ OpaqueFields), opaque \in OpaquePresent,
        ps \in PageSizeKinds, wrong \in {"", "para_blocks", "discarded_blocks", "images"}}

InitFix ==
    /\ fx_variant \in {"root", "main"}
    /\ fx_idx \in {0, 3}
    /\ fx_in \in FixPages
    /\ fx_out = None
    /\ fx_pc = "call"
    /\ IdleMover /\ IdleConv /\ IdleLoc /\ IdleTools

\* reprocess_discarded.py (and its copy in minerucustom/core)
FixCallRoot ==
    /\ fx_pc = "call" /\ fx_variant = "root"
    /\ fx_out' = FixRoot(fx_in, fx_idx)
    /\ fx_pc' = "done"
    /\ UNCHANGED <<fx_variant, fx_idx, fx_in, moverVars, convVars, locVars, toolVars>>

\* main.py
FixCallMain ==
    /\ fx_pc = "call" /\ fx_variant = "main"
    /\ fx_out' = FixMain(fx_in, fx_idx)
    /\ fx_pc' = "done"
    /\ UNCHANGED <<fx_variant, fx_idx, fx_in, moverVars, convVars, locVars, toolVars>>

NextFix == FixCallRoot \/ FixCallMain

SpecFix == InitFix /\ [][NextFix]_vars

(***************************************************************************)
(* Properties of fix_incomplete_page_data                                  *)
(***************************************************************************)
ContainerFields == ListFields \cup {"_layout_tree", "page_size", "drop_reason"}
IsContainer(x) == IsList(x) \/ x = EmptyDict
MissingSome == AllRequired \ DOMAIN fx_in # {}

C5_AsClaimed ==
    fx_pc = "done" =>
        LET v == fx_out.page["page_size"]
        IN  /\ IsList(v)
            /\ Len(Items(v)) = 2
            /\ \A i \in 1..Len(Items(v)) : Items(v)[i] > 0

(***************************************************************************)
(* convert_to_para_block_format as a state machine                         *)
(***************************************************************************)
LineSamples ==
    { [bbox |-> BBox(91), spans |-> [list |-> <<TextSpan(91)>>]],
      [bbox |-> BBox(91), spans |-> [list |-> <<TextSpan(91), EquationSpan(91)>>]],
      [bbox |-> BBox(91), spans |-> [list |-> << [type |-> "text", content |-> ""] >>]],
      [bbox |-> BBox(91), spans |-> [list |-> <<UntypedSpan>>]],
      [spans |-> [list |-> << [bbox |-> BBox(91)] >>]],
      [spans |-> [list |-> << [type |-> "footnote", content |-> "f"] >>]],
      [bbox |-> BBox(91)],
      [spans |-> None],
      [spans |-> [list |-> <<UntypedSpan, None>>]],
      None }

ConvBodies ==
    { EmptyDict, [text |-> "t"], [text |-> "", caption |-> "c"], [lines |-> None] }
    \cup {[lines |-> [list |-> ls]] : ls \in SeqsUpTo(LineSamples, MaxLines)}

ConvHeads ==
    { EmptyDict, [bbox |-> BBox(90)], [type |-> "text"], [bbox |-> BBox(90), type |-> "text"],
      [bbox |-> BBox(90), type |-> "discarded"] }

ConvBlocks == {head @@ body : head \in ConvHeads, body \in ConvBodies}

InitConv ==
    /\ cv_variant \in {"root", "main"}
    /\ cv_in \in ConvBlocks
    /\ cv_out = None /\ cv_again = None
    /\ cv_pc = "call"
    /\ IdleMover /\ IdleFix /\ IdleLoc /\ IdleTools

\* reprocess_discarded.py (and its copy in minerucustom/core)
ConvertCallRoot ==
    /\ cv_pc = "call" /\ cv_variant = "root"
    /\ cv_out' = ConvertRoot(cv_in)
    /\ cv_pc' = "once"
    /\ UNCHANGED <<cv_variant, cv_in, cv_again, moverVars, fixVars, locVars, toolVars>>

\* main.py
ConvertCallMain ==
    /\ cv_pc = "call" /\ cv_variant = "main"
    /\ cv_out' = ConvertMain(cv_in)
    /\ cv_pc' = "once"
    /\ UNCHANGED <<cv_variant, cv_in, cv_again, moverVars, fixVars, locVars, toolVars>>

\* the returned block is converted again
ConvertAgainRoot ==
    /\ cv_pc = "once" /\ cv_variant = "root" /\ ~IsNone(cv_out.ret)
    /\ cv_again' = ConvertRoot(cv_out.ret)
    /\ cv_pc' = "twice"
    /\ UNCHANGED <<cv_variant, cv_in, cv_out, moverVars, fixVars, locVars, toolVars>>

ConvertAgainMain ==
    /\ cv_pc = "once" /\ cv_variant = "main" /\ ~IsNone(cv_out.ret)
    /\ cv_again' = ConvertMain(cv_out.ret)
    /\ cv_pc' = "twice"
    /\ UNCHANGED <<cv_variant, cv_in, cv_out, moverVars, fixVars, locVars, toolVars>>

NextConv == ConvertCallRoot \/ ConvertCallMain \/ ConvertAgainRoot \/ ConvertAgainMain

SpecConv == InitConv /\ [][NextConv]_vars

(***************************************************************************)
(* Properties of convert_to_para_block_format                              *)
(***************************************************************************)
Returned == cv_pc # "call" /\ ~IsNone(cv_out.ret)
LinesOf(b) == Items(b["lines"])
SpansOf(line) == Items(line["spans"])

IsCanonical(b) ==
    /\ "bbox" \in DOMAIN b /\ "type" \in DOMAIN b /\ b["type"] = "text"
    /\ "lines" \in DOMAIN b /\ IsList(b["lines"]) /\ LinesOf(b) # <<>>
    /\ \A i \in 1..Len(LinesOf(b)) :
          LET line == LinesOf(b)[i]
          IN  /\ IsDict(line) /\ "spans" \in DOMAIN line /\ IsList(line["spans"])
              /\ SpansOf(line) # <<>>
              /\ \A j \in 1..Len(SpansOf(line)) :
                    /\ IsDict(SpansOf(line)[j])
                    /\ {"type", "content"} \subseteq DOMAIN SpansOf(line)[j]
                    /\ SpansOf(line)[j]["type"] \in ValidSpanTypes

\* the lines of a canonical block as the types and contents of their spans
Shape(b) ==
    [i \in 1..Len(LinesOf(b)) |->
        [j \in 1..Len(SpansOf(LinesOf(b)[i])) |->
            <<SpansOf(LinesOf(b)[i])[j]["type"], SpansOf(LinesOf(b)[i])[j]["content"]>>]]

\* C7 as claimed: converting a canonical block returns a block with the same
\* lines, spans, contents and span types, and converting the result again returns
\* the same block.
C7_AsClaimed ==
    (cv_pc = "twice" /\ IsCanonical(cv_in)) =>
        /\ IsCanonical(cv_out.ret)
        /\ Shape(cv_out.ret) = Shape(cv_in)
        /\ cv_again.ret = cv_out.ret

\* C7 for reprocess_discarded.py alone: a canonical block is returned as it is,
\* twice.
C7_RootIdempotent ==
    (cv_pc = "twice" /\ cv_variant = "root" /\ IsCanonical(cv_in)) =>
        /\ cv_out.ret = cv_in
        /\ cv_again.ret = cv_out.ret

(***************************************************************************)
(* find_insertion_point (TextProcessor, the same text in footnotes2mineru  *)
(* and generate_page_md).  A Python string is the sequence of its          *)
(* characters; an index is the 0-based Python index.                       *)
(***************************************************************************)
WhiteSpace == {" ", "\n"}       \* characters str.isspace() accepts
Stop == "."                     \* stands for the full stop the target is split on
MinSegmentLen == 10             \* a segment is tried when longer than this
MinWordLen == 2                 \* a word is a keyword when longer than this
MaxKeywords == 3                \* keywords looked up
NoMatch == -1                   \* result for an empty target
NotFound == -1                  \* str.find's result when nothing is found

IsSpace(c) == c \in WhiteSpace

\* str.split(): the maximal runs of non-whitespace characters
RECURSIVE WordsFrom(_, _, _)
WordsFrom(s, i, cur) ==
    LET closed == IF cur = <<>> THEN <<>> ELSE <<cur>>
    IN  IF i > Len(s) THEN closed
        ELSE IF IsSpace(s[i]) THEN closed \o WordsFrom(s, i + 1, <<>>)
        ELSE WordsFrom(s, i + 1, Append(cur, s[i]))

SplitWords(s) == WordsFrom(s, 1, <<>>)

\* ''.join(words)
RECURSIVE Join(_)
Join(words) == IF words = <<>> THEN <<>> ELSE Head(words) \o Join(Tail(words))

\* ''.join(s.split())
RemoveSpace(s) == Join(SplitWords(s))

\* str.split(sep): the pieces between separators, empty ones included
RECURSIVE SplitFrom(_, _, _, _)
SplitFrom(s, sep, i, cur) ==
    IF i > Len(s) THEN <<cur>>
    ELSE IF s[i] = sep THEN <<cur>> \o SplitFrom(s, sep, i + 1, <<>>)
    ELSE SplitFrom(s, sep, i + 1, Append(cur, s[i]))

SplitOn(s, sep) == SplitFrom(s, sep, 1, <<>>)

\* str.strip()
RECURSIVE LStrip(_)
LStrip(s) == IF s # <<>> /\ IsSpace(Head(s)) THEN LStrip(Tail(s)) ELSE s

RECURSIVE RStrip(_)
RStrip(s) ==
    IF s # <<>> /\ IsSpace(s[Len(s)]) THEN RStrip(SubSeq(s, 1, Len(s) - 1)) ELSE s

Strip(s) == RStrip(LStrip(s))

\* str.find(sub): the lowest index where sub occurs, NotFound if nowhere
RECURSIVE FindFrom(_, _, _)
FindFrom(hay, sub, start) ==
    IF start + Len(sub) > Len(hay) THEN NotFound
    ELSE IF SubSeq(hay, start + 1, start + Len(sub)) = sub THEN start
    ELSE FindFrom(hay, sub, start + 1)

Find(hay, sub) == FindFrom(hay, sub, 0)

Ret(n) == [ret |-> n, raised |-> FALSE]
IndexError == [ret |-> 0, raised |-> TRUE]

\* the loop turning an index of the stripped text into one of the original:
\* reading official_md[original_index] past the end raises IndexError
RECURSIVE RemapFrom(_, _, _, _)
RemapFrom(md, index, original_index, no_space_index) ==
    IF ~(no_space_index < index) THEN Ret(original_index)
    ELSE IF original_index >= Len(md) THEN IndexError
    ELSE RemapFrom(md, index, original_index + 1,
                   IF ~IsSpace(md[original_index + 1])
                   THEN no_space_index + 1 ELSE no_space_index)

RemapSameIndex(md, index) == Ret(index)
Remap(md, index) == RemapFrom(md, index, 0, 0)

\* max(candidates, key=len, default=''): the first of the longest ones
RECURSIVE MaxByLen(_, _)
MaxByLen(candidates, best) ==
    IF candidates = <<>> THEN best
    ELSE MaxByLen(Tail(candidates),
                  IF Len(Head(candidates)) > Len(best) THEN Head(candidates) ELSE best)

RECURSIVE StrippedLong(_)
StrippedLong(segments) ==
    IF segments = <<>> THEN <<>>
    ELSE LET s == Strip(Head(segments))
         IN  (IF Len(s) > MinSegmentLen THEN <<s>> ELSE <<>>)
             \o StrippedLong(Tail(segments))

longest_segment(target) ==
    LET segments == SplitOn(target, Stop)
    IN  IF Len(segments) > 1
        THEN RemoveSpace(MaxByLen(StrippedLong(segments), <<>>))
        ELSE <<>>

\* step 2: the index of the longest segment, NotFound when the step finds nothing
SegmentIndex(no_space, target) ==
    LET longest == longest_segment(target)
    IN  IF longest # <<>> THEN Find(no_space, longest) ELSE NotFound

\* sorted(words, key=len, reverse=True): stable, longest first
RECURSIVE InsertByLen(_, _)
InsertByLen(sorted, w) ==
    IF sorted = <<>> THEN <<w>>
    ELSE IF Len(w) > Len(Head(sorted)) THEN <<w>> \o sorted
    ELSE <<Head(sorted)>> \o InsertByLen(Tail(sorted), w)

RECURSIVE SortedByLen(_, _)
SortedByLen(words, sorted) ==
    IF words = <<>> THEN sorted
    ELSE SortedByLen(Tail(words), InsertByLen(sorted, Head(words)))

RECURSIVE LongWords(_)
LongWords(words) ==
    IF words = <<>> THEN <<>>
    ELSE (IF Len(Head(words)) > MinWordLen THEN <<Head(words)>> ELSE <<>>)
         \o LongWords(Tail(words))

keywords(target) ==
    LET sorted == SortedByLen(LongWords(SplitWords(target)), <<>>)
    IN  SubSeq(sorted, 1, IF Len(sorted) < MaxKeywords THEN Len(sorted) ELSE MaxKeywords)

\* the remapped positions of the keywords that occur
RECURSIVE PositionsFrom(_, _, _, _)
PositionsFrom(md, no_space, kws, positions) ==
    IF kws = <<>> THEN [positions |-> positions, raised |-> FALSE]
    ELSE LET pos == Find(no_space, RemoveSpace(Head(kws)))
         IN  IF pos = NotFound THEN PositionsFrom(md, no_space, Tail(kws), positions)
             ELSE LET r == Remap(md, pos)
                  IN  IF r.raised THEN [positions |-> positions, raised |-> TRUE]
                      ELSE PositionsFrom(md, no_space, Tail(kws),
                                         Append(positions, r.ret))

MinOf(positions) ==
    CHOOSE m \in Range(positions) : \A n \in Range(positions) : m <= n

FallbackStripped(md) == Len(RemoveSpace(md))
Fallback(md) == Len(md)

\* step 3
KeywordStep(md, no_space, target) ==
    IF LongWords(SplitWords(target)) = <<>> THEN Ret(Fallback(md))
    ELSE LET found == PositionsFrom(md, no_space, keywords(target), <<>>)
         IN  IF found.raised THEN IndexError
             ELSE IF found.positions # <<>> THEN Ret(MinOf(found.positions))
             ELSE Ret(Fallback(md))

EmptyTargetUnchecked(target) == FALSE
EmptyTarget(target) == target = <<>>

find_insertion_point(md, target) ==
    LET target_no_space == RemoveSpace(target)
        official_md_no_space == RemoveSpace(md)
        index == Find(official_md_no_space, target_no_space)
        segment == SegmentIndex(official_md_no_space, target_no_space)
    IN  IF EmptyTarget(target_no_space) THEN Ret(NoMatch)
        ELSE IF index # NotFound THEN Remap(md, index)
        ELSE IF segment # NotFound THEN Remap(md, segment)
        ELSE KeywordStep(md, official_md_no_space, target_no_space)

(***************************************************************************)
(* The locator called on a haystack and a target put together from pieces. *)
(***************************************************************************)
LongPiece == [i \in 1..(MinSegmentLen + 1) |-> "c"]
Pieces == {<<"a">>, <<"b">>, <<" ">>, <<Stop>>, LongPiece}

Texts(n) == {Join(ps) : ps \in SeqsUpTo(Pieces, n)}

\* targets of two words with whitespace between them
Words == {<<"a", "b", "a">>, <<"b", "a">>, LongPiece}
WordTargets == {w1 \o <<" ">> \o w2 : w1, w2 \in Words}

InitLoc ==
    /\ official_md \in Texts(MaxHayPieces)
    /\ target_text \in Texts(MaxTargetPieces) \cup WordTargets
    /\ loc_out = 0
    /\ loc_pc = "call"
    /\ IdleMover /\ IdleFix /\ IdleConv /\ IdleTools

Locate ==
    /\ loc_pc = "call"
    /\ LET r == find_insertion_point(official_md, target_text)
       IN  /\ loc_out' = r.ret
           /\ loc_pc' = IF r.raised THEN "raised" ELSE "done"
    /\ UNCHANGED <<official_md, target_text>>
    /\ UNCHANGED <<moverVars, fixVars, convVars, toolVars>>

NextLoc == Locate

SpecLoc == InitLoc /\ [][NextLoc]_vars

(***************************************************************************)
(* Claims about the locator.                                               *)
(***************************************************************************)
NonSpace(s) == SelectSeq(s, LAMBDA c : ~IsSpace(c))
NonSpaceCount(s, i) == Len(NonSpace(SubSeq(s, 1, i)))
OccursAt(sub, hay, k) ==
    k + Len(sub) <= Len(hay) /\ SubSeq(hay, k + 1, k + Len(sub)) = sub
Occurs(sub, hay) == \E k \in 0..Len(hay) : OccursAt(sub, hay, k)
FirstOffset(sub, hay) ==
    CHOOSE k \in 0..Len(hay) :
        OccursAt(sub, hay, k) /\ \A j \in 0..(k - 1) : ~OccursAt(sub, hay, j)
Located == loc_pc # "call"

\* C8: when the stripped target occurs in the stripped haystack, the result is
\* the first index i of the haystack with as many non-whitespace characters
\* before it as the offset of the first occurrence, the haystack from i on
\* begins, whitespace removed, with the stripped target, and the remapping
\* loop never reads past the end of the haystack.
C8_ExactMatchRemapped ==
    LET t == NonSpace(target_text)
        h == NonSpace(official_md)
    IN  /\ loc_pc # "raised"
        /\ (Located /\ t # <<>> /\ Occurs(t, h)) =>
             LET k == FirstOffset(t, h)
             IN  /\ loc_out \in 0..Len(official_md)
                 /\ NonSpaceCount(official_md, loc_out) = k
                 /\ \A j \in 0..(loc_out - 1) : NonSpaceCount(official_md, j) # k
                 /\ OccursAt(t, NonSpace(SubSeq(official_md, loc_out + 1,
                                                Len(official_md))), 0)

\* a match behind whitespace of the haystack, the target holding whitespace too
C8_Witness ==
    LET t == NonSpace(target_text)
        h == NonSpace(official_md)
    IN  /\ loc_pc = "done"
        /\ t # <<>> /\ Occurs(t, h)
        /\ FirstOffset(t, h) > 0
        /\ loc_out > FirstOffset(t, h)
        /\ Len(target_text) > Len(t)

AllStrategiesFail(md, target) ==
    LET t == RemoveSpace(target)
        h == RemoveSpace(md)
    IN  /\ ~Occurs(t, h)
        /\ SegmentIndex(h, t) = NotFound
        /\ PositionsFrom(md, h, keywords(t), <<>>).positions = <<>>

ABCDEF == <<"A", "B", "C", "D", "E", "F">>

\* C9: for a non-empty target that the exact, segment and keyword strategies
\* all fail to find, the result is the length of the haystack; "ABCDEF" with
\* "CDE" gives 2 and with "XYZ" gives 6.
C9_FallbackIsEnd ==
    /\ (Located /\ NonSpace(target_text) # <<>>
          /\ AllStrategiesFail(official_md, target_text)) =>
         (loc_pc = "done" /\ loc_out = Len(official_md))
    /\ Located =>
         /\ find_insertion_point(ABCDEF, <<"C", "D", "E">>) = Ret(2)
         /\ find_insertion_point(ABCDEF, <<"X", "Y", "Z">>) = Ret(6)

\* a target with a long segment and a keyword, none of them in a haystack that
\* holds whitespace
C9_Witness ==
    /\ loc_pc = "done"
    /\ AllStrategiesFail(official_md, target_text)
    /\ longest_segment(RemoveSpace(target_text)) # <<>>
    /\ keywords(RemoveSpace(target_text)) # <<>>
    /\ Len(official_md) > Len(NonSpace(official_md))
    /\ loc_out = Len(official_md)

\* C10: the result is -1 exactly when the target is empty after removing
\* whitespace; for any other target it is an offset in 0..len(haystack).
C10_SentinelIffEmpty ==
    Located =>
        /\ loc_pc = "done"
        /\ (loc_out = -1) <=> (NonSpace(target_text) = <<>>)
        /\ NonSpace(target_text) # <<>> => loc_out \in 0..Len(official_md)

\* a target of whitespace only, on a non-empty haystack
C10_Witness ==
    /\ loc_pc = "done"
    /\ target_text # <<>>
    /\ NonSpace(target_text) = <<>>
    /\ official_md # <<>>
    /\ loc_out = -1

\* the whitespace-delimited tokens of the target that are longer than 2
\* characters, the 3 longest of them, and the remapped offsets of those that
\* occur in the whitespace-stripped haystack
TokenOffsets ==
    PositionsFrom(official_md, RemoveSpace(official_md), keywords(target_text), <<>>).positions

\* C21 as stated: when neither the exact nor the segment search matches and a
\* token of the target that is longer than 2 characters (among its 3 longest)
\* occurs in the whitespace-stripped haystack, the result is the leftmost
\* remapped offset of the matching tokens.
C21_AsClaimed ==
    LET t == RemoveSpace(target_text)
        h == RemoveSpace(official_md)
    IN  (/\ loc_pc = "done" /\ t # <<>>
         /\ ~Occurs(t, h) /\ SegmentIndex(h, t) = NotFound
         /\ TokenOffsets # <<>>) =>
            loc_out = MinOf(TokenOffsets)


(***************************************************************************)
(* build_final_text (PageProcessor, and the first part of                  *)
(* FootnoteProcessor.build_final_text): the insertion points are sorted by *)
(* position, largest first, and inserted one after the other.              *)
(***************************************************************************)
\* the index a slice bound stands for in a string of length n
SliceIndex(pos, n) ==
    IF pos < 0 THEN (IF n + pos < 0 THEN 0 ELSE n + pos)
    ELSE IF pos > n THEN n ELSE pos

\* final_text[:pos] + mark + final_text[pos:]
InsertAt(text, pos, mark) ==
    LET c == SliceIndex(pos, Len(text))
    IN  SubSeq(text, 1, c) \o mark \o SubSeq(text, c + 1, Len(text))

\* mutant: the smallest position first
RECURSIVE InsertByPosAscending(_, _)
InsertByPosAscending(sorted, pt) ==
    IF sorted = <<>> THEN <<pt>>
    ELSE IF pt.pos < Head(sorted).pos THEN <<pt>> \o sorted
    ELSE <<Head(sorted)>> \o InsertByPosAscending(Tail(sorted), pt)

\* list.sort(key=lambda x: x[0], reverse=True) is stable: a point goes behind
\* the points of the same position that precede it
RECURSIVE InsertByPos(_, _)
InsertByPos(sorted, pt) ==
    IF sorted = <<>> THEN <<pt>>
    ELSE IF pt.pos > Head(sorted).pos THEN <<pt>> \o sorted
    ELSE <<Head(sorted)>> \o InsertByPos(Tail(sorted), pt)

RECURSIVE SortedPoints(_, _)
SortedPoints(points, sorted) ==
    IF points = <<>> THEN sorted
    ELSE SortedPoints(Tail(points), InsertByPos(sorted, Head(points)))

RECURSIVE InsertAll(_, _)
InsertAll(text, points) ==
    IF points = <<>> THEN text
    ELSE InsertAll(InsertAt(text, Head(points).pos, Head(points).mark), Tail(points))

build_final_text(md, points) ==
    InsertAll(md, SortedPoints(points, <<>>))

\* documents, marks and insertion points
DocText(n) == [i \in 1..n |-> IF i % 2 = 1 THEN "p" ELSE "q"]
Marks == {<<"x">>, <<"y", "z">>}
PointsFor(n) == {[pos |-> o, mark |-> m] : o \in (-1)..(n + 1), m \in Marks}

InitComp ==
    /\ \E n \in 0..MaxDocLen :
          /\ cp_md = DocText(n)
          /\ cp_points \in SeqsUpTo(PointsFor(n), MaxPoints)
    /\ cp_sorted = <<>> /\ cp_out = <<>> /\ cp_pc = "call"
    /\ IdleMover /\ IdleFix /\ IdleConv /\ IdleLoc /\ IdleExtract /\ IdleFilter /\ IdleOrch
    /\ IdleResolve /\ IdleCollect

Compose ==
    /\ cp_pc = "call"
    /\ cp_sorted' = SortedPoints(cp_points, <<>>)
    /\ cp_out' = build_final_text(cp_md, cp_points)
    /\ cp_pc' = "done"
    /\ UNCHANGED <<cp_md, cp_points>>
    /\ UNCHANGED <<moverVars, fixVars, convVars, locVars, extractVars, filterVars, orchVars,
                   resolveVars, collectVars>>

NextComp == Compose

SpecComp == InitComp /\ [][NextComp]_vars

(***************************************************************************)
(* Claims about build_final_text.                                          *)
(***************************************************************************)
PointIdx == 1..Len(cp_points)
InRange == \A i \in PointIdx : cp_points[i].pos \in 0..Len(cp_md)
DistinctOffsets ==
    \A i, j \in PointIdx : i # j => cp_points[i].pos # cp_points[j].pos

RECURSIVE SmallerLenFrom(_, _)
SmallerLenFrom(i, j) ==
    IF j > Len(cp_points) THEN 0
    ELSE (IF cp_points[j].pos < cp_points[i].pos THEN Len(cp_points[j].mark) ELSE 0)
         + SmallerLenFrom(i, j + 1)

\* where the fragment of point i is expected: its offset plus the length of
\* the fragments of smaller offsets (0-based)
Landing(i) == cp_points[i].pos + SmallerLenFrom(i, 1)

Covered(k) ==
    \E i \in PointIdx : Landing(i) < k /\ k <= Landing(i) + Len(cp_points[i].mark)

RECURSIVE WithoutFragments(_)
WithoutFragments(k) ==
    IF k > Len(cp_out) THEN <<>>
    ELSE (IF Covered(k) THEN <<>> ELSE <<cp_out[k]>>) \o WithoutFragments(k + 1)

\* C11: with pairwise distinct offsets in 0..len(document), every fragment
\* lands at its offset plus the total length of the fragments of smaller
\* offsets, and the result without those fragments is the document.
C11_InsertRemoveRoundTrip ==
    (cp_pc = "done" /\ InRange /\ DistinctOffsets) =>
        /\ \A i \in PointIdx :
              SubSeq(cp_out, Landing(i) + 1, Landing(i) + Len(cp_points[i].mark))
                  = cp_points[i].mark
        /\ WithoutFragments(1) = cp_md

\* three fragments given in an order that is not the sorted one, at the start,
\* inside and at the end of the document
C11_Witness ==
    /\ cp_pc = "done" /\ InRange /\ DistinctOffsets
    /\ Len(cp_points) = 3
    /\ cp_points[1].pos = 0
    /\ cp_points[2].pos = Len(cp_md)
    /\ cp_points[3].pos \in 1..(Len(cp_md) - 1)
    /\ cp_sorted # cp_points

\* the fragments of every offset in the order of the input collection, each
\* group in front of the character of that offset
RECURSIVE MarksAt(_, _)
MarksAt(o, j) ==
    IF j > Len(cp_points) THEN <<>>
    ELSE (IF cp_points[j].pos = o THEN cp_points[j].mark ELSE <<>>) \o MarksAt(o, j + 1)

RECURSIVE InInputOrder(_)
InInputOrder(o) ==
    IF o = Len(cp_md) THEN MarksAt(o, 1)
    ELSE MarksAt(o, 1) \o <<cp_md[o + 1]>> \o InInputOrder(o + 1)

\* C12 as stated: fragments that share an offset appear in the composed
\* document in the order in which they appear in the input collection.
C12_AsClaimed ==
    (cp_pc = "done" /\ InRange) => cp_out = InInputOrder(0)

(***************************************************************************)
(* extract_text_from_spans (TextProcessor).  A content and the text are    *)
(* sequences of characters.                                                *)
(***************************************************************************)
KeyError == [text |-> <<>>, raised |-> TRUE]

\* mutant: an equation is taken without the dollar signs
EquationBare(content) == content
\* f'${content}$'
Equation(content) == <<"$">> \o content \o <<"$">>

\* the loop over the spans: span['type'] and span['content'] raise KeyError
\* when the key is missing
RECURSIVE ExtractFrom(_, _, _)
ExtractFrom(spans, i, text) ==
    IF i > Len(spans) THEN [text |-> text, raised |-> FALSE]
    ELSE IF "type" \notin DOMAIN spans[i] THEN KeyError
    ELSE IF spans[i]["type"] = "text"
         THEN IF "content" \notin DOMAIN spans[i] THEN KeyError
              ELSE ExtractFrom(spans, i + 1, text \o spans[i]["content"])
    ELSE IF spans[i]["type"] = "inline_equation"
         THEN IF "content" \notin DOMAIN spans[i] THEN KeyError
              ELSE ExtractFrom(spans, i + 1, text \o Equation(spans[i]["content"]))
    ELSE ExtractFrom(spans, i + 1, text)

extract_text_from_spans(spans) == ExtractFrom(spans, 1, <<>>)

SpanSamples ==
    { [type |-> "text", content |-> <<"a">>],
      [type |-> "text", content |-> <<"b", " ">>],
      [type |-> "inline_equation", content |-> <<"x">>],
      [type |-> "interline_equation", content |-> <<"e">>],
      [type |-> "image", image_path |-> "i.png"],
      [type |-> "text"],
      [content |-> <<"n">>] }

InitExtract ==
    /\ ex_spans \in SeqsUpTo(SpanSamples, MaxSpans)
    /\ ex_out = <<>> /\ ex_pc = "call"
    /\ IdleMover /\ IdleFix /\ IdleConv /\ IdleLoc /\ IdleComp /\ IdleFilter /\ IdleOrch
    /\ IdleResolve /\ IdleCollect

ExtractCall ==
    /\ ex_pc = "call"
    /\ LET r == extract_text_from_spans(ex_spans)
       IN  /\ ex_out' = r.text
           /\ ex_pc' = IF r.raised THEN "raised" ELSE "done"
    /\ UNCHANGED ex_spans
    /\ UNCHANGED <<moverVars, fixVars, convVars, locVars, compVars, filterVars, orchVars,
                   resolveVars, collectVars>>

NextExtract == ExtractCall

SpecExtract == InitExtract /\ [][NextExtract]_vars

\* a Span: it has a type, and a content when it is text or an inline equation
IsSpan(sp) ==
    /\ "type" \in DOMAIN sp
    /\ sp["type"] \in {"text", "inline_equation"} => "content" \in DOMAIN sp

Contribution(sp) ==
    IF sp["type"] = "text" THEN sp["content"]
    ELSE IF sp["type"] = "inline_equation" THEN <<"$">> \o sp["content"] \o <<"$">>
    ELSE <<>>

RECURSIVE Concatenated(_)
Concatenated(spans) ==
    IF spans = <<>> THEN <<>>
    ELSE Concatenated(SubSeq(spans, 1, Len(spans) - 1))
         \o Contribution(spans[Len(spans)])

\* C16: for every sequence of spans the result is the in-order concatenation
\* of the content of each text span, of '$' + content + '$' for each
\* inline_equation span, and of nothing for a span of any other type.
C16_ExtractedText ==
    (ex_pc # "call" /\ \A i \in 1..Len(ex_spans) : IsSpan(ex_spans[i])) =>
        (ex_pc = "done" /\ ex_out = Concatenated(ex_spans))

\* a text span, an equation and a span of another type, in that order
C16_Witness ==
    /\ ex_pc = "done" /\ Len(ex_spans) = 3
    /\ ex_spans[1]["type"] = "text"
    /\ ex_spans[2]["type"] = "inline_equation"
    /\ ex_spans[3]["type"] \notin {"text", "inline_equation"}
    /\ ex_out = <<"a", "$", "x", "$">>

\* C27 as stated: extract_text_from_spans never fails, for any sequence of
\* spans: a span without the type or the content field contributes nothing.
C27_AsClaimed ==
    ex_pc # "call" => ex_pc = "done"


(***************************************************************************)
(* should_exclude_footnote (FootnoteFilter).  A text is the sequence of    *)
(* its characters.                                                         *)
(***************************************************************************)
Glyph == "*"                     \* stands for the separator glyph
Digits == {"0", "1", "2", "3", "4", "5", "6", "7", "8", "9"}
UpperLetters ==                  \* [A-Z]
    {"A", "B", "C", "D", "E", "F", "G", "H", "I", "J", "K", "L", "M",
     "N", "O", "P", "Q", "R", "S", "T", "U", "V", "W", "X", "Y", "Z"}
exclude_keywords == << <<"j", "m">>, <<"g", "w">> >>  \* stand for the two denylisted words

\* str.isdigit(): not empty and digits only
IsDigit(t) == t # <<>> /\ \A i \in 1..Len(t) : t[i] \in Digits

\* text.replace(glyph, '')
RECURSIVE RemoveGlyph(_)
RemoveGlyph(t) ==
    IF t = <<>> THEN <<>>
    ELSE (IF Head(t) = Glyph THEN <<>> ELSE <<Head(t)>>) \o RemoveGlyph(Tail(t))

\* keyword in text
Contains(t, keyword) == Find(t, keyword) # NotFound

\* \d+ from index i on: the index behind the digits it takes
RECURSIVE DigitsEnd(_, _)
DigitsEnd(t, i) ==
    IF i <= Len(t) /\ t[i] \in Digits THEN DigitsEnd(t, i + 1) ELSE i

\* mutant: a small letter is taken for a capital one
IsUpperAnyCase(c) == c \in UpperLetters \cup {"n", "j", "m", "g", "w"}
\* [A-Z]
IsUpper(c) == c \in UpperLetters

\* re.match of the four patterns: the glyph, \d+, one of the tails, the end

MatchesPattern(t) ==
    /\ Len(t) >= 2 /\ t[1] = Glyph /\ t[2] \in Digits
    /\ LET e == DigitsEnd(t, 2)
           tail == SubSeq(t, e, Len(t))
       IN  \/ tail = <<Glyph>>                          \* ^G\d+G$
           \/ tail = <<"N", Glyph>>                     \* ^G\d+NG$
           \/ (Len(tail) = 1 /\ IsUpper(tail[1]))       \* ^G\d+[A-Z]$
           \/ tail = <<>>                               \* ^G\d+$

should_exclude_footnote(text) ==
    LET t == Strip(text)
    IN  IF IsDigit(t) \/ IsDigit(RemoveGlyph(t)) THEN TRUE
        ELSE IF \E k \in 1..Len(exclude_keywords) : Contains(t, exclude_keywords[k])
        THEN TRUE
        ELSE MatchesPattern(t)

TextPieces ==
    {<<"4">>, <<Glyph>>, <<"N">>, <<"A">>, <<"n">>, <<" ">>, <<"j">>, <<"j", "m">>,
     <<"g", "w">>}

InitFilter ==
    /\ ff_text \in {Join(ps) : ps \in SeqsUpTo(TextPieces, MaxTextPieces)}
    /\ ff_out = FALSE /\ ff_pc = "call"
    /\ IdleMover /\ IdleFix /\ IdleConv /\ IdleLoc /\ IdleComp /\ IdleExtract /\ IdleOrch
    /\ IdleResolve /\ IdleCollect

FilterCall ==
    /\ ff_pc = "call"
    /\ ff_out' = should_exclude_footnote(ff_text)
    /\ ff_pc' = "done"
    /\ UNCHANGED ff_text
    /\ UNCHANGED <<moverVars, fixVars, convVars, locVars, compVars, extractVars, orchVars,
                   resolveVars, collectVars>>

NextFilter == FilterCall

SpecFilter == InitFilter /\ [][NextFilter]_vars

\* the text without the whitespace at its ends
Trimmed(t) ==
    LET inner == {i \in 1..Len(t) : ~IsSpace(t[i])}
    IN  IF inner = {} THEN <<>>
        ELSE SubSeq(t, CHOOSE i \in inner : \A j \in inner : i <= j,
                       CHOOSE i \in inner : \A j \in inner : i >= j)

DigitsWithoutGlyph(t) ==
    LET rest == SelectSeq(t, LAMBDA c : c # Glyph)
    IN  rest # <<>> /\ \A i \in 1..Len(rest) : rest[i] \in Digits

HasKeyword(t) ==
    \E k \in 1..Len(exclude_keywords) : Occurs(exclude_keywords[k], t)

\* the glyph, a number, and then nothing, the glyph, N and the glyph, or one
\* capital letter
MarkerShape(t) ==
    \E n \in 1..Len(t) :
        /\ t[1] = Glyph
        /\ n + 1 <= Len(t)
        /\ \A i \in 2..(n + 1) : t[i] \in Digits
        /\ LET tail == SubSeq(t, n + 2, Len(t))
           IN  \/ tail \in {<<>>, <<Glyph>>, <<"N", Glyph>>}
               \/ (Len(tail) = 1 /\ tail[1] \in UpperLetters)

\* C15: the filter answers true exactly when the trimmed text is digits only
\* once the separator glyphs are removed, or contains a denylisted keyword, or
\* has the shape of a marker; the glyph-wrapped number and every digits-only
\* text are excluded and prose is not.
C15_ExcludedExactly ==
    ff_pc = "done" =>
        /\ ff_out <=> \/ DigitsWithoutGlyph(Trimmed(ff_text))
                      \/ HasKeyword(Trimmed(ff_text))
                      \/ MarkerShape(Trimmed(ff_text))
        /\ should_exclude_footnote(<<Glyph, "4", "1", "8", Glyph>>)
        /\ (ff_text # <<>> /\ \A i \in 1..Len(ff_text) : ff_text[i] \in Digits) => ff_out
        /\ (\A i \in 1..Len(ff_text) : ff_text[i] \in {"n", "j", " "}) => ~ff_out

\* a marker closed by a capital letter, with whitespace around it
C15_Witness ==
    /\ ff_pc = "done" /\ ff_out
    /\ ff_text = <<" ", Glyph, "4", "A">>

(***************************************************************************)
(* The Page/Footnote Orchestrator: FootnoteProcessor (footnotes2mineru)    *)
(* and PageProcessor (generate_page_md).  Page indices are the 0-based     *)
(* Python ones; page_info is a list, page_contexts, matched_points and     *)
(* page_footnote_counts are dictionaries (functions).                      *)
(***************************************************************************)
AnchorTypes == {"text", "table_body", "table_caption", "table_footnote"}
BottomTenths == 7            \* bottom_threshold = page_height * 0.7
DigitChars == <<"0", "1", "2", "3", "4", "5", "6", "7", "8", "9">>

\* str(n)
RECURSIVE Str(_)
Str(n) ==
    IF n < 10 THEN <<DigitChars[n + 1]>>
    ELSE Str(n \div 10) \o <<DigitChars[(n % 10) + 1]>>

\* the label of a page inside its marker ("#" and "!" stand for the two
\* characters around the number)
PageLabel(page) == <<"#">> \o Str(page + 1) \o <<"!">>

Fence == <<"~", "~", "~">>     \* "~" stands for the backquote

\* the marker of a page: two newlines, the page fence, the label, the closing
\* fence, two newlines
PageMark(page) ==
    <<"\n", "\n">> \o Fence \o <<"p", "a", "g", "e", "\n">> \o PageLabel(page)
        \o <<"\n">> \o Fence \o <<"\n", "\n">>

\* the mark of a footnote: a newline, the footnote fence, the text, the
\* closing fence, a newline
FootnoteMark(text) ==
    <<"\n">> \o Fence \o <<"f", "o", "o", "t", "n", "o", "t", "e", "\n">> \o text
        \o <<"\n">> \o Fence \o <<"\n">>

\* '\n'.join(texts)
RECURSIVE JoinNewline(_)
JoinNewline(texts) ==
    IF texts = <<>> THEN <<>>
    ELSE IF Len(texts) = 1 THEN texts[1]
    ELSE texts[1] \o <<"\n">> \o JoinNewline(Tail(texts))

\* the extracted texts of the lines of a block; for a table block only of
\* the lines whose spans are not empty
RECURSIVE LineTexts(_, _)
LineTexts(lines, onlyWithSpans) ==
    IF lines = <<>> THEN <<>>
    ELSE LET spans == Items(Head(lines)["spans"])
         IN  (IF onlyWithSpans /\ spans = <<>> THEN <<>>
              ELSE <<extract_text_from_spans(spans).text>>)
             \o LineTexts(Tail(lines), onlyWithSpans)

\* block_text of preprocess_pages and process_pages
block_text(block) ==
    IF block["type"] = "text" THEN JoinNewline(LineTexts(Items(block["lines"]), FALSE))
    ELSE IF block["type"] \in AnchorTypes
    THEN JoinNewline(LineTexts(Items(block["lines"]), TRUE))
    ELSE <<>>

Bottom(block) == Items(block["bbox"])[4]
Top(block) == Items(block["bbox"])[2]

\* the loop of preprocess_pages over para_blocks: the lowest block of an
\* anchor type with a text that is not blank
RECURSIVE LastBlockFrom(_, _, _)
LastBlockFrom(blocks, i, last) ==
    IF i > Len(blocks) THEN last
    ELSE LET b == blocks[i]
             t == block_text(b)
         IN  IF b["type"] \in AnchorTypes /\ Bottom(b) > last.max_y /\ Strip(t) # <<>>
             THEN LastBlockFrom(blocks, i + 1,
                                [found |-> TRUE, text |-> t, type |-> b["type"],
                                 max_y |-> Bottom(b)])
             ELSE LastBlockFrom(blocks, i + 1, last)

NoLastBlock == [found |-> FALSE, text |-> <<>>, type |-> "", max_y |-> -1]

\* page.get(key, [])
GetOrEmpty(page, key) == IF key \in DOMAIN page THEN page[key] ELSE [list |-> <<>>]

\* preprocess_pages: page_info gets one entry per page that has a page_size,
\* page_contexts one per page that has a last block
RECURSIVE PreprocessFrom(_, _, _)
PreprocessFrom(pages, page_idx0, acc) ==
    IF page_idx0 >= Len(pages) \/ acc.raised THEN acc
    ELSE LET page == pages[page_idx0 + 1]
         IN  IF ~IsDict(page) THEN [acc EXCEPT !.raised = TRUE]      \* 'page_size' in None
             ELSE IF "page_size" \notin DOMAIN page
             THEN PreprocessFrom(pages, page_idx0 + 1, acc)
             ELSE IF ~IsList(page["page_size"]) \/ Len(Items(page["page_size"])) < 2
             THEN [acc EXCEPT !.raised = TRUE]                        \* page_size[1]
             ELSE IF ~IsList(GetOrEmpty(page, "para_blocks"))
             THEN [acc EXCEPT !.raised = TRUE]                        \* for block in None
             ELSE LET info == [height |-> Items(page["page_size"])[2],
                               para_blocks |-> GetOrEmpty(page, "para_blocks"),
                               discarded_blocks |-> GetOrEmpty(page, "discarded_blocks")]
                      last == LastBlockFrom(Items(info.para_blocks), 1, NoLastBlock)
                  IN  PreprocessFrom(pages, page_idx0 + 1,
                        [page_info |-> Append(acc.page_info, info),
                         page_contexts |->
                            IF last.found
                            THEN Put(acc.page_contexts, page_idx0,
                                     [text |-> last.text, type |-> last.type])
                            ELSE acc.page_contexts,
                         raised |-> FALSE])

preprocess_pages(pages) ==
    PreprocessFrom(pages, 0,
                   [page_info |-> <<>>, page_contexts |-> EmptyDict, raised |-> FALSE])

\* collect_footnotes, first loop: one task for every discarded block with
\* lines whose top is below the threshold
RECURSIVE BlockTasks(_, _, _)
BlockTasks(blocks, page, height) ==
    IF blocks = <<>> THEN <<>>
    ELSE LET b == Head(blocks)
         IN  (IF Len(Items(b["lines"])) # 0 /\ Top(b) * 10 > height * BottomTenths
              THEN << [page |-> page, y_pos |-> Top(b), lines |-> Items(b["lines"])] >>
              ELSE <<>>)
             \o BlockTasks(Tail(blocks), page, height)

RECURSIVE FootnoteTasks(_, _)
FootnoteTasks(infos, page) ==
    IF page >= Len(infos) THEN <<>>
    ELSE BlockTasks(Items(infos[page + 1].discarded_blocks), page, infos[page + 1].height)
         \o FootnoteTasks(infos, page + 1)

\* process_footnote: the texts of the lines that are not blank and not excluded
RECURSIVE process_footnote(_)
process_footnote(lines) ==
    IF lines = <<>> THEN <<>>
    ELSE LET text == extract_text_from_spans(Items(Head(lines)["spans"])).text
         IN  (IF Strip(text) # <<>> /\ ~should_exclude_footnote(text)
              THEN <<text>> ELSE <<>>)
             \o process_footnote(Tail(lines))

\* the text of the nearest text block that ends above the footnote
RECURSIVE ClosestContext(_, _, _)
ClosestContext(blocks, y_pos, best) ==
    IF blocks = <<>> THEN best.context
    ELSE LET b == Head(blocks)
             nearer == /\ b["type"] = "text"
                       /\ Bottom(b) < y_pos
                       /\ (best.none \/ y_pos - Bottom(b) < best.distance)
         IN  ClosestContext(Tail(blocks), y_pos,
                IF nearer
                THEN [none |-> FALSE, distance |-> y_pos - Bottom(b),
                      context |-> JoinNewline(LineTexts(Items(b["lines"]), FALSE))]
                ELSE best)

NoContext == [none |-> TRUE, distance |-> 0, context |-> <<>>]

\* sum(len(task[2]) for task in footnote_tasks if task[0] == page_idx)
RECURSIVE LinesOfPage(_, _)
LinesOfPage(tasks, page) ==
    IF tasks = <<>> THEN 0
    ELSE (IF Head(tasks).page = page THEN Len(Head(tasks).lines) ELSE 0)
         + LinesOfPage(Tail(tasks), page)

RECURSIVE NewFootnotes(_, _, _)
NewFootnotes(texts, task, infos) ==
    IF texts = <<>> THEN <<>>
    ELSE << [text |-> Head(texts), y_pos |-> task.y_pos, page |-> task.page,
             context |-> ClosestContext(Items(infos[task.page + 1].para_blocks),
                                        task.y_pos, NoContext)] >>
         \o NewFootnotes(Tail(texts), task, infos)

\* the loop over the results of the tasks, in the order of the tasks
RECURSIVE CollectFrom(_, _, _, _)
CollectFrom(tasks, i, infos, acc) ==
    IF i > Len(tasks) THEN acc
    ELSE LET task == tasks[i]
             results == process_footnote(task.lines)
         IN  CollectFrom(tasks, i + 1, infos,
                [total_footnotes |-> acc.total_footnotes + LinesOfPage(tasks, task.page),
                 inserted_footnotes |-> acc.inserted_footnotes + Len(results),
                 counts |-> [acc.counts EXCEPT ![task.page] = @ + Len(results)],
                 footnotes |-> acc.footnotes \o NewFootnotes(results, task, infos)])

\* footnotes.sort(key=lambda x: (x['page'], float(y))): stable, ascending
RECURSIVE InsertFootnote(_, _)
InsertFootnote(sorted, f) ==
    IF sorted = <<>> THEN <<f>>
    ELSE LET h == Head(sorted)
         IN  IF f.page < h.page \/ (f.page = h.page /\ f.y_pos < h.y_pos)
             THEN <<f>> \o sorted
             ELSE <<h>> \o InsertFootnote(Tail(sorted), f)

RECURSIVE SortedFootnotes(_, _)
SortedFootnotes(fs, sorted) ==
    IF fs = <<>> THEN sorted
    ELSE SortedFootnotes(Tail(fs), InsertFootnote(sorted, Head(fs)))

collect_footnotes(infos, st) ==
    LET tasks == FootnoteTasks(infos, 0)
        c == CollectFrom(tasks, 1, infos,
                [total_footnotes |-> st.total_footnotes,
                 inserted_footnotes |-> st.inserted_footnotes,
                 counts |-> [p \in 0..(Len(infos) - 1) |-> 0],
                 footnotes |-> <<>>])
    IN  [footnotes |-> SortedFootnotes(c.footnotes, <<>>),
         page_footnote_counts |-> c.counts,
         stats |-> [st EXCEPT !.total_footnotes = c.total_footnotes,
                              !.inserted_footnotes = c.inserted_footnotes]]

\* process_pages: the anchor blocks of a page with their texts, lowest first
RECURSIVE AnchorBlocks(_)
AnchorBlocks(blocks) ==
    IF blocks = <<>> THEN <<>>
    ELSE LET b == Head(blocks)
             t == block_text(b)
         IN  (IF b["type"] \in AnchorTypes /\ Strip(t) # <<>>
              THEN << [text |-> t, y |-> Bottom(b)] >> ELSE <<>>)
             \o AnchorBlocks(Tail(blocks))

\* page_blocks.sort(key=lambda x: x[1], reverse=True): stable
RECURSIVE InsertByY(_, _)
InsertByY(sorted, b) ==
    IF sorted = <<>> THEN <<b>>
    ELSE IF b.y > Head(sorted).y THEN <<b>> \o sorted
    ELSE <<Head(sorted)>> \o InsertByY(Tail(sorted), b)

RECURSIVE SortedByY(_, _)
SortedByY(blocks, sorted) ==
    IF blocks = <<>> THEN sorted
    ELSE SortedByY(Tail(blocks), InsertByY(sorted, Head(blocks)))

\* the blocks are tried one after the other until find_insertion_point gives
\* something else than -1
RECURSIVE Cascade(_, _, _)
Cascade(md, page_blocks, i) ==
    IF i > Len(page_blocks) THEN Ret(NoMatch)
    ELSE LET r == find_insertion_point(md, page_blocks[i].text)
         IN  IF r.raised \/ r.ret # NoMatch THEN r
             ELSE Cascade(md, page_blocks, i + 1)

\* the footnote marks of a page, in the order of the footnotes
RECURSIVE FootnoteMarks(_, _)
FootnoteMarks(fs, page) ==
    IF fs = <<>> THEN <<>>
    ELSE (IF Head(fs).page = page THEN FootnoteMark(Head(fs).text) ELSE <<>>)
         \o FootnoteMarks(Tail(fs), page)

RECURSIVE FootnotesOfPage(_, _)
FootnotesOfPage(fs, page) ==
    IF fs = <<>> THEN 0
    ELSE (IF Head(fs).page = page THEN 1 ELSE 0) + FootnotesOfPage(Tail(fs), page)

\* the text inserted for a page: its marker, behind its footnotes when the
\* footnotes are inserted by page
MarkText(mode, fs, page) ==
    IF mode = "by_page" THEN FootnoteMarks(fs, page) \o PageMark(page)
    ELSE PageMark(page)

Matched(mode, fs, page, st) ==
    IF mode = "by_page"
    THEN [st EXCEPT !.matched_footnotes = @ + FootnotesOfPage(fs, page)]
    ELSE st

\* process_pages: the loop over current_page
RECURSIVE PagesFrom(_, _, _, _, _, _, _)
PagesFrom(mode, md, infos, contexts, fs, total_pages, acc) ==
    LET current_page == acc.current_page
    IN  IF current_page >= total_pages \/ acc.raised THEN acc
        ELSE IF current_page \notin DOMAIN contexts
        THEN PagesFrom(mode, md, infos, contexts, fs, total_pages,
                       [acc EXCEPT !.current_page = @ + 1])
        ELSE IF current_page >= Len(infos)
        THEN [acc EXCEPT !.raised = TRUE]            \* page_info[current_page]
        ELSE LET page_blocks ==
                     SortedByY(AnchorBlocks(Items(infos[current_page + 1].para_blocks)), <<>>)
                 r == Cascade(md, page_blocks, 1)
             IN  IF r.raised THEN [acc EXCEPT !.raised = TRUE]
                 ELSE IF r.ret # NoMatch
                 THEN PagesFrom(mode, md, infos, contexts, fs, total_pages,
                        [acc EXCEPT
                            !.current_page = @ + 1,
                            !.insert_points =
                                Append(@, [pos |-> r.ret,
                                           mark |-> MarkText(mode, fs, current_page)]),
                            !.matched_points = Put(@, current_page, r.ret),
                            !.stats = Matched(mode, fs, current_page, @)])
                 ELSE PagesFrom(mode, md, infos, contexts, fs, total_pages,
                        [acc EXCEPT !.current_page = @ + 1,
                                    !.unmatched_pages = @ \cup {current_page}])

process_pages(mode, md, infos, contexts, fs, total_pages, unmatched, matched, st) ==
    PagesFrom(mode, md, infos, contexts, fs, total_pages,
              [current_page |-> 0, insert_points |-> <<>>, matched_points |-> matched,
               unmatched_pages |-> unmatched, stats |-> st, raised |-> FALSE])

RECURSIVE Ascending(_)
Ascending(S) ==
    IF S = {} THEN <<>>
    ELSE LET m == CHOOSE x \in S : \A y \in S : x <= y
         IN  <<m>> \o Ascending(S \ {m})

\* sorted(unmatched_pages, reverse=True)
RECURSIVE Descending(_)
Descending(S) ==
    IF S = {} THEN <<>>
    ELSE LET m == CHOOSE x \in S : \A y \in S : y <= x
         IN  <<m>> \o Descending(S \ {m})

Largest(S) == CHOOSE x \in S : \A y \in S : y <= x
Smallest(S) == CHOOSE x \in S : \A y \in S : x <= y

\* the position given to an unmatched page
UnmatchedPoint(md, matched, page_idx0, total_pages) ==
    LET before == {i \in DOMAIN matched : i < page_idx0}
        after == {i \in DOMAIN matched : i > page_idx0 /\ i < total_pages}
    IN  IF before # {} /\ after # {}
        THEN matched[Largest(before)]
             + ((matched[Smallest(after)] - matched[Largest(before)]) \div 2)
        ELSE IF before # {} THEN matched[Largest(before)] + 1
        ELSE IF after # {} THEN matched[Smallest(after)] - 1
        ELSE Len(md)

\* process_unmatched_pages: the loop over the unmatched pages, highest first
RECURSIVE UnmatchedFrom(_, _, _, _, _, _)
UnmatchedFrom(mode, md, fs, total_pages, todo, acc) ==
    IF todo = <<>> THEN acc
    ELSE LET page == Head(todo)
             insert_point == UnmatchedPoint(md, acc.matched_points, page, total_pages)
         IN  UnmatchedFrom(mode, md, fs, total_pages, Tail(todo),
                [insert_points |->
                    Append(acc.insert_points,
                           [pos |-> insert_point, mark |-> MarkText(mode, fs, page)]),
                 matched_points |-> Put(acc.matched_points, page, insert_point),
                 stats |-> Matched(mode, fs, page, acc.stats)])

process_unmatched_pages(mode, md, fs, total_pages, unmatched, matched, st) ==
    UnmatchedFrom(mode, md, fs, total_pages, Descending(unmatched),
                  [insert_points |-> <<>>, matched_points |-> matched, stats |-> st])

\* the first of the points collected so far whose text holds the label of the page
RECURSIVE PagePoints(_, _)
PagePoints(points, page) ==
    IF points = <<>> THEN <<>>
    ELSE (IF Contains(Head(points).mark, PageLabel(page)) THEN <<Head(points)>> ELSE <<>>)
         \o PagePoints(Tail(points), page)

\* process_keyword_footnotes: the loop over the footnotes
RECURSIVE KeywordFrom(_, _, _)
KeywordFrom(md, fs, acc) ==
    IF fs = <<>> \/ acc.raised THEN acc
    ELSE LET footnote == Head(fs)
             footnote_id == [text |-> footnote.text, page |-> footnote.page]
             r == find_insertion_point(md, footnote.context)
             page_points == PagePoints(acc.insert_points, footnote.page)
             mark == FootnoteMark(footnote.text)
         IN  IF footnote.context = <<>> \/ footnote_id \in acc.processed_footnotes
             THEN KeywordFrom(md, Tail(fs), acc)
             ELSE IF r.raised THEN [acc EXCEPT !.raised = TRUE]
             ELSE IF r.ret # NoMatch
             THEN KeywordFrom(md, Tail(fs),
                    [acc EXCEPT
                        !.insert_points = Append(@, [pos |-> r.ret, mark |-> mark]),
                        !.processed_footnotes = @ \cup {footnote_id},
                        !.stats = [@ EXCEPT !.matched_footnotes = @ + 1]])
             ELSE KeywordFrom(md, Tail(fs),
                    [acc EXCEPT
                        !.insert_points =
                            IF page_points # <<>>
                            THEN Append(@, [pos |-> page_points[1].pos, mark |-> mark])
                            ELSE @,
                        !.stats = [@ EXCEPT !.unmatched_footnotes = @ + 1]])

process_keyword_footnotes(mode, md, fs, st) ==
    IF mode = "by_page"
    THEN [insert_points |-> <<>>, processed_footnotes |-> {}, stats |-> st,
          raised |-> FALSE]
    ELSE KeywordFrom(md, fs,
                     [insert_points |-> <<>>, processed_footnotes |-> {}, stats |-> st,
                      raised |-> FALSE])

(***************************************************************************)
(* Documents given to the orchestrator.                                    *)
(***************************************************************************)
OrchLine(t) == [spans |-> [list |-> << [type |-> "text", content |-> t] >>]]
EmptyLine == [spans |-> [list |-> <<>>]]

RECURSIVE OrchLines(_)
OrchLines(texts) ==
    IF texts = <<>> THEN <<>> ELSE <<OrchLine(Head(texts))>> \o OrchLines(Tail(texts))

TextBlock(t, y1) ==
    [type |-> "text", bbox |-> [nums |-> <<10, y1 - 5, 50, y1>>],
     lines |-> [list |-> <<OrchLine(t)>>]]
TableBlock(t, y1) ==
    [type |-> "table_body", bbox |-> [nums |-> <<10, y1 - 5, 50, y1>>],
     lines |-> [list |-> <<EmptyLine, OrchLine(t)>>]]
FootBlock(texts, y0) ==
    [type |-> "discarded", bbox |-> [nums |-> <<10, y0, 50, y0 + 5>>],
     lines |-> [list |-> OrchLines(texts)]]

OrchPage(para, discarded) ==
    [page_size |-> [nums |-> <<60, 100>>], para_blocks |-> [list |-> para],
     discarded_blocks |-> [list |-> discarded]]

\* one block whose text is in the document
PageAnchored == OrchPage(<<TextBlock(<<"a", "b">>, 50)>>, <<>>)
\* the lowest block is not in the document, the table above it is; a footnote
PageTwoBlocks ==
    OrchPage(<<TableBlock(<<"c", "d">>, 40), TextBlock(<<"z", "z">>, 60)>>,
             <<FootBlock(<< <<"f", "n">> >>, 80)>>)
\* no block to anchor the page with; a footnote
PageNoAnchor == OrchPage(<<>>, <<FootBlock(<< <<"g", "n">> >>, 90)>>)
\* a page record without page_size
PageNoSize ==
    [para_blocks |-> [list |-> <<TextBlock(<<"a", "b">>, 50)>>],
     discarded_blocks |-> [list |-> <<>>]]
\* a blank block above two footnote blocks, one line of which is a number
PageFiltered ==
    OrchPage(<<TextBlock(<<"a", "b">>, 50), TextBlock(<<" ">>, 70)>>,
             <<FootBlock(<< <<"4">>, <<"h", "n">> >>, 75),
               FootBlock(<< <<"k", "n">> >>, 85),
               FootBlock(<< <<"t", "o", "p">> >>, 10)>>)
\* para_blocks is not a list
PageBroken ==
    [page_size |-> [nums |-> <<60, 100>>], para_blocks |-> None,
     discarded_blocks |-> [list |-> <<>>]]

OrchPages ==
    {PageAnchored, PageTwoBlocks, PageNoAnchor, PageNoSize, PageFiltered, PageBroken}
OrchDocs == {<<"a", "b", " ", "c", "d">>, <<>>}
OrchModes == {"page_md", "by_page", "keyword"}

NoStats ==
    [total_footnotes |-> 0, inserted_footnotes |-> 0, excluded_footnotes |-> 0,
     matched_footnotes |-> 0, unmatched_footnotes |-> 0]

InitOrch ==
    /\ or_mode \in OrchModes
    /\ pdf_info \in SeqsUpTo(OrchPages, MaxDocPages)
    /\ or_md \in OrchDocs
    /\ page_info = <<>> /\ page_contexts = EmptyDict
    /\ footnotes = <<>> /\ page_footnote_counts = EmptyDict /\ stats = NoStats
    /\ unmatched_pages = {} /\ matched_points = EmptyDict
    /\ page_insert_points = <<>> /\ unmatched_insert_points = <<>>
    /\ keyword_insert_points = <<>> /\ all_insert_points = <<>>
    /\ inserted_text = <<>>
    /\ or_pc = "preprocess"
    /\ IdleMover /\ IdleFix /\ IdleConv /\ IdleLoc /\ IdleComp /\ IdleExtract /\ IdleFilter
    /\ IdleResolve /\ IdleCollect

otherVars == <<moverVars, fixVars, convVars, locVars, compVars, extractVars, filterVars,
               resolveVars, collectVars>>

\* preprocess_pages
Preprocess ==
    /\ or_pc = "preprocess"
    /\ LET r == preprocess_pages(pdf_info)
       IN  /\ page_info' = r.page_info
           /\ page_contexts' = r.page_contexts
           /\ or_pc' = IF r.raised THEN "failed"
                       ELSE IF or_mode = "page_md" THEN "pages" ELSE "collect"
    /\ UNCHANGED <<or_mode, pdf_info, or_md, footnotes, page_footnote_counts, stats,
                   unmatched_pages, matched_points, page_insert_points,
                   unmatched_insert_points, keyword_insert_points, all_insert_points,
                   inserted_text, otherVars>>

\* FootnoteProcessor.collect_footnotes
CollectFootnotes ==
    /\ or_pc = "collect"
    /\ LET r == collect_footnotes(page_info, stats)
       IN  /\ footnotes' = r.footnotes
           /\ page_footnote_counts' = r.page_footnote_counts
           /\ stats' = r.stats
    /\ or_pc' = "pages"
    /\ UNCHANGED <<or_mode, pdf_info, or_md, page_info, page_contexts,
                   unmatched_pages, matched_points, page_insert_points,
                   unmatched_insert_points, keyword_insert_points, all_insert_points,
                   inserted_text, otherVars>>

\* process_pages
ProcessPages ==
    /\ or_pc = "pages"
    /\ LET r == process_pages(or_mode, or_md, page_info, page_contexts, footnotes,
                              Len(pdf_info), unmatched_pages, matched_points, stats)
       IN  /\ page_insert_points' = r.insert_points
           /\ matched_points' = r.matched_points
           /\ unmatched_pages' = r.unmatched_pages
           /\ stats' = r.stats
           /\ or_pc' = IF r.raised THEN "failed" ELSE "unmatched"
    /\ UNCHANGED <<or_mode, pdf_info, or_md, page_info, page_contexts, footnotes,
                   page_footnote_counts, unmatched_insert_points,
                   keyword_insert_points, all_insert_points, inserted_text, otherVars>>

\* process_unmatched_pages
ProcessUnmatched ==
    /\ or_pc = "unmatched"
    /\ LET r == process_unmatched_pages(or_mode, or_md, footnotes, Len(pdf_info),
                                        unmatched_pages, matched_points, stats)
       IN  /\ unmatched_insert_points' = r.insert_points
           /\ matched_points' = r.matched_points
           /\ stats' = r.stats
    /\ or_pc' = IF or_mode = "page_md" THEN "compose" ELSE "keyword"
    /\ UNCHANGED <<or_mode, pdf_info, or_md, page_info, page_contexts, footnotes,
                   page_footnote_counts, unmatched_pages, page_insert_points,
                   keyword_insert_points, all_insert_points, inserted_text, otherVars>>

\* FootnoteProcessor.process_keyword_footnotes
ProcessKeywordFootnotes ==
    /\ or_pc = "keyword"
    /\ LET r == process_keyword_footnotes(or_mode, or_md, footnotes, stats)
       IN  /\ keyword_insert_points' = r.insert_points
           /\ stats' = r.stats
           /\ or_pc' = IF r.raised THEN "failed" ELSE "compose"
    /\ UNCHANGED <<or_mode, pdf_info, or_md, page_info, page_contexts, footnotes,
                   page_footnote_counts, unmatched_pages, matched_points,
                   page_insert_points, unmatched_insert_points, all_insert_points,
                   inserted_text, otherVars>>

\* the end of process: the insertion points are put together and inserted
\* (FootnoteProcessor then rewrites the inserted text: it removes the page
\* markers it was not asked for, merges neighbouring footnote blocks and
\* turns them into quotes)
ComposeAll ==
    /\ or_pc = "compose"
    /\ all_insert_points' =
          page_insert_points \o unmatched_insert_points \o keyword_insert_points
    /\ inserted_text' = build_final_text(or_md, all_insert_points')
    /\ or_pc' = "done"
    /\ UNCHANGED <<or_mode, pdf_info, or_md, page_info, page_contexts, footnotes,
                   page_footnote_counts, stats, unmatched_pages, matched_points,
                   page_insert_points, unmatched_insert_points, keyword_insert_points,
                   otherVars>>

NextOrch ==
    \/ Preprocess \/ CollectFootnotes \/ ProcessPages \/ ProcessUnmatched
    \/ ProcessKeywordFootnotes \/ ComposeAll

SpecOrch == InitOrch /\ [][NextOrch]_vars

(***************************************************************************)
(* process_unmatched_pages called on its own: any set of unmatched pages   *)
(* and any offsets of the matched ones.                                    *)
(***************************************************************************)
MatchedOffsets == {0, 2, 5}

InitResolve ==
    /\ rs_md \in OrchDocs
    /\ rs_total_pages \in 1..MaxTotalPages
    /\ rs_unmatched \in SUBSET (0..(rs_total_pages - 1))
    /\ \E D \in SUBSET ((0..(rs_total_pages - 1)) \ rs_unmatched) :
          rs_matched \in [D -> MatchedOffsets]
    /\ rs_points = <<>> /\ rs_matched_after = EmptyDict
    /\ rs_pc = "call"
    /\ IdleMover /\ IdleFix /\ IdleConv /\ IdleLoc /\ IdleComp /\ IdleExtract /\ IdleFilter
    /\ IdleOrch /\ IdleCollect

Resolve ==
    /\ rs_pc = "call"
    /\ LET r == process_unmatched_pages("page_md", rs_md, <<>>, rs_total_pages,
                                        rs_unmatched, rs_matched, NoStats)
       IN  /\ rs_points' = r.insert_points
           /\ rs_matched_after' = r.matched_points
    /\ rs_pc' = "done"
    /\ UNCHANGED <<rs_md, rs_total_pages, rs_unmatched, rs_matched>>
    /\ UNCHANGED <<moverVars, fixVars, convVars, locVars, compVars, extractVars,
                   filterVars, orchVars, collectVars>>

NextResolve == Resolve

SpecResolve == InitResolve /\ [][NextResolve]_vars

\* the offset an unmatched page is to get: the pages matched from the start
\* before it, the pages matched from the start or resolved already (the
\* unmatched ones above it) after it
ExpectedOffset(p) ==
    LET before == {q \in DOMAIN rs_matched : q < p}
        after == {q \in DOMAIN rs_matched \cup rs_unmatched : q > p /\ q < rs_total_pages}
        prev == rs_matched[Largest(before)]
        next == rs_matched_after[Smallest(after)]
    IN  IF before # {} /\ after # {} THEN prev + ((next - prev) \div 2)
        ELSE IF before # {} THEN prev + 1
        ELSE IF after # {} THEN next - 1
        ELSE Len(rs_md)

\* C23: process_unmatched_pages handles the unmatched pages from the highest
\* index to the lowest; each gets prev + (next - prev) // 2 between its nearest
\* matched neighbours, the neighbour's offset + 1 or - 1 when there is only one,
\* len(document) when there is none, a page resolved earlier counting as
\* matched; the matched pages keep their offsets.
C23_UnmatchedResolved ==
    rs_pc = "done" =>
        /\ DOMAIN rs_matched_after = DOMAIN rs_matched \cup rs_unmatched
        /\ \A q \in DOMAIN rs_matched : rs_matched_after[q] = rs_matched[q]
        /\ \A p \in rs_unmatched : rs_matched_after[p] = ExpectedOffset(p)
        /\ Len(rs_points) = Cardinality(rs_unmatched)
        /\ \A p \in rs_unmatched :
              LET k == 1 + Cardinality({q \in rs_unmatched : q > p})
              IN  rs_points[k] = [pos |-> rs_matched_after[p], mark |-> PageMark(p)]

\* pages 1 and 2 between two matched pages: page 2 gets the midpoint, page 1
\* the midpoint between page 0 and the resolved page 2
C23_Witness ==
    /\ rs_pc = "done" /\ rs_total_pages = 4 /\ rs_unmatched = {1, 2}
    /\ DOMAIN rs_matched = {0, 3} /\ rs_matched[0] = 0 /\ rs_matched[3] = 5
    /\ rs_matched_after[2] = 2 /\ rs_matched_after[1] = 1

(***************************************************************************)
(* collect_footnotes with its worker pool: the tasks are submitted in task *)
(* order, the workers return in any order, and the loop over executor.map  *)
(* consumes the results in task order.                                     *)
(***************************************************************************)
\* two footnote blocks at the same height
PageSameY ==
    OrchPage(<<TextBlock(<<"a", "b">>, 50)>>,
             <<FootBlock(<< <<"p", "n">> >>, 80), FootBlock(<< <<"q", "n">> >>, 80)>>)
\* the lower footnote block comes first
PageSwapped ==
    OrchPage(<<TextBlock(<<"a", "b">>, 50)>>,
             <<FootBlock(<< <<"r", "n">> >>, 85), FootBlock(<< <<"s", "n">> >>, 75)>>)
CollectPages == {PageTwoBlocks, PageFiltered, PageSameY, PageSwapped}

\* the results executor.map can hand to the loop next: the one of the next
\* task, once its worker has returned
AnyCompleted(yielded, done) == Range(done) \ Range(yielded)
NextResult(yielded, done) == {k \in Range(done) : k = Len(yielded) + 1}

InitCollect ==
    /\ \E doc \in SeqsUpTo(CollectPages, MaxCollectPages) :
          cf_page_info = preprocess_pages(doc).page_info
    /\ cf_done = <<>> /\ cf_yielded = <<>>
    /\ cf_footnotes = <<>>
    /\ cf_counts = [p \in 0..(Len(cf_page_info) - 1) |-> 0]
    /\ cf_stats = NoStats
    /\ cf_pc = "map"
    /\ IdleMover /\ IdleFix /\ IdleConv /\ IdleLoc /\ IdleComp /\ IdleExtract /\ IdleFilter
    /\ IdleOrch /\ IdleResolve

collectOthers == <<moverVars, fixVars, convVars, locVars, compVars, extractVars,
                   filterVars, orchVars, resolveVars>>

\* a worker returns from process_footnote: it has built its list of results
\* and written nothing else
WorkerReturns ==
    /\ cf_pc = "map"
    /\ \E i \in 1..Len(FootnoteTasks(cf_page_info, 0)) :
          /\ i \notin Range(cf_done)
          /\ cf_done' = Append(cf_done, i)
    /\ UNCHANGED <<cf_page_info, cf_yielded, cf_footnotes, cf_counts, cf_stats, cf_pc,
                   collectOthers>>

\* one iteration of the loop over executor.map
YieldResult ==
    /\ cf_pc = "map"
    /\ \E k \in NextResult(cf_yielded, cf_done) :
          LET tasks == FootnoteTasks(cf_page_info, 0)
              task == tasks[k]
              results == process_footnote(task.lines)
          IN  /\ cf_stats' =
                    [cf_stats EXCEPT
                        !.total_footnotes = @ + LinesOfPage(tasks, task.page),
                        !.inserted_footnotes = @ + Len(results)]
              /\ cf_counts' = [cf_counts EXCEPT ![task.page] = @ + Len(results)]
              /\ cf_footnotes' = cf_footnotes \o NewFootnotes(results, task, cf_page_info)
              /\ cf_yielded' = Append(cf_yielded, k)
    /\ UNCHANGED <<cf_page_info, cf_done, cf_pc, collectOthers>>

\* the loop is over: the footnotes are sorted
SortFootnotes ==
    /\ cf_pc = "map"
    /\ Len(cf_yielded) = Len(FootnoteTasks(cf_page_info, 0))
    /\ cf_footnotes' = SortedFootnotes(cf_footnotes, <<>>)
    /\ cf_pc' = "done"
    /\ UNCHANGED <<cf_page_info, cf_done, cf_yielded, cf_counts, cf_stats, collectOthers>>

NextCollect == WorkerReturns \/ YieldResult \/ SortFootnotes

SpecCollect == InitCollect /\ [][NextCollect]_vars

\* the candidates that survive filtering, in task and line order
RECURSIVE Candidates(_, _)
Candidates(tasks, infos) ==
    IF tasks = <<>> THEN <<>>
    ELSE NewFootnotes(process_footnote(Head(tasks).lines), Head(tasks), infos)
         \o Candidates(Tail(tasks), infos)

SameKey(f, g) == f.page = g.page /\ f.y_pos = g.y_pos
KeyBefore(f, g) == f.page < g.page \/ (f.page = g.page /\ f.y_pos < g.y_pos)

\* C26: whatever the order in which the workers return, collect_footnotes
\* ends with the candidates sorted ascending by (page, vertical position),
\* candidates of equal key in task and line order, and with the counters the
\* loop computes in task order: the result of the tasks handled one after the
\* other.
C26_CollectDeterministic ==
    cf_pc = "done" =>
        LET all == Candidates(FootnoteTasks(cf_page_info, 0), cf_page_info)
            seq == collect_footnotes(cf_page_info, NoStats)
        IN  /\ Len(cf_footnotes) = Len(all)
            /\ \A i, j \in 1..Len(cf_footnotes) :
                  i < j => ~KeyBefore(cf_footnotes[j], cf_footnotes[i])
            /\ \A i \in 1..Len(all) :
                  SelectSeq(cf_footnotes, LAMBDA f : SameKey(f, all[i]))
                      = SelectSeq(all, LAMBDA f : SameKey(f, all[i]))
            /\ cf_footnotes = seq.footnotes
            /\ cf_counts = seq.page_footnote_counts
            /\ cf_stats = seq.stats

\* the worker of the last task returned first, on a page with two footnotes
\* of the same key and on one whose footnotes had to be reordered
C26_Witness ==
    /\ cf_pc = "done" /\ Len(cf_done) = 4 /\ cf_done[1] = 4 /\ cf_done[4] = 1
    /\ \E i \in 1..(Len(cf_footnotes) - 1) :
          /\ SameKey(cf_footnotes[i], cf_footnotes[i + 1])
          /\ cf_footnotes[i].text # cf_footnotes[i + 1].text
    /\ cf_footnotes # Candidates(FootnoteTasks(cf_page_info, 0), cf_page_info)

(***************************************************************************)
(* Claims about the orchestrator.                                          *)
(***************************************************************************)
PagesResolved == or_pc \in {"keyword", "compose", "done"}
\* every page record is well formed
WellFormedPages ==
    \A i \in 1..Len(pdf_info) :
        /\ IsDict(pdf_info[i]) /\ "page_size" \in DOMAIN pdf_info[i]
        /\ IsList(pdf_info[i]["para_blocks"])
PagePointsTogether == page_insert_points \o unmatched_insert_points
MarkersOf(page) ==
    {i \in 1..Len(PagePointsTogether) :
        Occurs(PageMark(page), PagePointsTogether[i].mark)}

\* C13 as stated: once process_pages and process_unmatched_pages have run,
\* every page index below total_pages has an offset in matched_points and
\* exactly one page-marker insertion point (here for documents whose page
\* records are all well formed).
C13_AsClaimed ==
    (PagesResolved /\ WellFormedPages) =>
        \A page \in 0..(Len(pdf_info) - 1) :
            /\ page \in DOMAIN matched_points
            /\ Cardinality(MarkersOf(page)) = 1

\* C14 as stated: when process ends, every footnote that survived filtering
\* is contained in an insertion point handed to build_final_text (here for
\* documents whose page records are all well formed).
C14_AsClaimed ==
    (or_pc = "done" /\ or_mode \in {"by_page", "keyword"} /\ WellFormedPages) =>
        \A i \in 1..Len(footnotes) :
            \E j \in 1..Len(all_insert_points) :
                Occurs(FootnoteMark(footnotes[i].text), all_insert_points[j].mark)

\* the text is actually in the document: the exact or the segment search finds it
FoundInDocument(text) ==
    LET t == RemoveSpace(text)
        h == RemoveSpace(or_md)
    IN  t # <<>> /\ (Occurs(t, h) \/ SegmentIndex(h, t) # NotFound)

\* the texts of the anchor blocks of a page, bottom-most first
BlocksBottomUp(page) ==
    SortedByY(AnchorBlocks(Items(pdf_info[page + 1]["para_blocks"])), <<>>)

\* C22 as stated: after process_pages, a page with anchor blocks is recorded
\* in matched_points with the offset of the first block, from the bottom-most
\* upwards, whose text is found in the document, and a page none of whose
\* blocks is found is in unmatched_pages and not in matched_points (here for
\* documents whose page records are all well formed).
C22_AsClaimed ==
    (or_pc = "unmatched" /\ WellFormedPages) =>
        \A page \in DOMAIN page_contexts :
            LET blocks == BlocksBottomUp(page)
                found == {i \in 1..Len(blocks) : FoundInDocument(blocks[i].text)}
            IN  IF found = {}
                THEN page \in unmatched_pages /\ page \notin DOMAIN matched_points
                ELSE /\ page \in DOMAIN matched_points
                     /\ matched_points[page] =
                            find_insertion_point(or_md, blocks[Smallest(found)].text).ret

\* C24 as stated: in keyword mode a footnote whose context is not found in
\* the document is inserted at the offset of the marker of its own page (here
\* for documents whose page records are all well formed).
C24_AsClaimed ==
    (or_pc = "done" /\ or_mode = "keyword" /\ WellFormedPages) =>
        \A i \in 1..Len(footnotes) :
            LET f == footnotes[i]
            IN  (f.context # <<>> /\ ~FoundInDocument(f.context)) =>
                    /\ f.page \in DOMAIN matched_points
                    /\ \E j \in 1..Len(keyword_insert_points) :
                          keyword_insert_points[j] =
                              [pos |-> matched_points[f.page], mark |-> FootnoteMark(f.text)]

\* the candidate lines: the lines of the discarded blocks of the bottom region
RECURSIVE CandidateLines(_)
CandidateLines(tasks) ==
    IF tasks = <<>> THEN 0 ELSE Len(Head(tasks).lines) + CandidateLines(Tail(tasks))

\* C25 as stated: once the footnotes are collected, total_footnotes is the
\* number of candidate lines, each counted once, inserted_footnotes the number
\* of candidates that survived filtering, and their difference the number of
\* candidates filtered out.
C25_AsClaimed ==
    (or_pc \in {"pages", "unmatched", "keyword", "compose", "done"}
        /\ or_mode \in {"by_page", "keyword"}) =>
        /\ stats.total_footnotes = CandidateLines(FootnoteTasks(page_info, 0))
        /\ stats.inserted_footnotes = Len(footnotes)

\* the texts of the lines of a discarded block
DiscardedTexts(b) == Range(LineTexts(Items(b["lines"]), FALSE))

\* C28 as stated: once the pages are preprocessed, the blocks process_pages
\* reads for page index p are the para_blocks of pdf_info[p], and once the
\* footnotes are collected, the page of every footnote is the index in
\* pdf_info of a page that holds the footnote's line in a discarded block at
\* the footnote's height, also when some page record has no page_size.
C28_AsClaimed ==
    or_pc \in {"pages", "unmatched", "keyword", "compose", "done"} =>
        /\ \A p \in DOMAIN page_contexts :
              /\ p < Len(page_info)
              /\ page_info[p + 1].para_blocks = GetOrEmpty(pdf_info[p + 1], "para_blocks")
        /\ \A i \in 1..Len(footnotes) :
              LET f == footnotes[i]
              IN  /\ f.page < Len(pdf_info)
                  /\ \E b \in Range(Items(GetOrEmpty(pdf_info[f.page + 1],
                                                     "discarded_blocks"))) :
                        Top(b) = f.y_pos /\ f.text \in DiscardedTexts(b)

\* C30 as stated: in the document PageProcessor.process composes, the marker
\* of page i comes before the marker of page j for every two pages i < j that
\* both received a marker, here for pages whose offsets are in page order,
\* equal offsets included.
C30_AsClaimed ==
    (or_pc = "done" /\ or_mode = "page_md") =>
        \A i, j \in DOMAIN matched_points :
            (i < j /\ matched_points[i] <= matched_points[j]
                /\ MarkersOf(i) # {} /\ MarkersOf(j) # {}) =>
                /\ Occurs(PageMark(i), inserted_text)
                /\ Occurs(PageMark(j), inserted_text)
                /\ FirstOffset(PageMark(i), inserted_text)
                       < FirstOffset(PageMark(j), inserted_text)

====
